---- MODULE Spec2Model ----
(***************************************************************************)
(* Model of the vault-promoter compare / copy / split engine.              *)
(*                                                                         *)
(* Strings that the code inspects (keys, patterns) are sequences of        *)
(* one-character strings, so that strings.ToLower and strings.Contains     *)
(* are computed.  Values are records: a raw number, a text, or a text      *)
(* holding a JSON object.  The two backends are functions from locations  *)
(* to cells (absent / document / bare scalar).                             *)
(***************************************************************************)
EXTENDS Naturals, Integers, Sequences, FiniteSets, TLC

VARIABLES cfg, mounts, vault, aws, op, hist

vars == <<cfg, mounts, vault, aws, op, hist>>

(***************************************************************************)
(* Bounds of the model.                                                    *)
(***************************************************************************)
\* number of distinct non-empty plain texts a value can hold
MaxText == 2
\* number of backend calls of one invocation that may fail
MaxFaults == 1

(***************************************************************************)
(* strings                                                                 *)
(***************************************************************************)
LowerOf ==
  [A |-> "a", B |-> "b", C |-> "c", D |-> "d", E |-> "e", F |-> "f", G |-> "g",
   H |-> "h", I |-> "i", J |-> "j", K |-> "k", L |-> "l", M |-> "m", N |-> "n",
   O |-> "o", P |-> "p", Q |-> "q", R |-> "r", S |-> "s", T |-> "t", U |-> "u",
   V |-> "v", W |-> "w", X |-> "x", Y |-> "y", Z |-> "z"]

ToLowerChar(c) == IF c \in DOMAIN LowerOf THEN LowerOf[c] ELSE c

\* strings.ToLower
ToLower(s) == [i \in 1..Len(s) |-> ToLowerChar(s[i])]

\* strings.Contains
Contains(s, sub) ==
  \E i \in 0..(Len(s) - Len(sub)) : SubSeq(s, i + 1, i + Len(sub)) = sub

\* strings.TrimSpace: the blanks at both ends are dropped
RECURSIVE TrimSpace(_)
TrimSpace(s) ==
  IF Len(s) = 0 THEN s
  ELSE IF Head(s) = " " THEN TrimSpace(Tail(s))
  ELSE IF s[Len(s)] = " " THEN TrimSpace(SubSeq(s, 1, Len(s) - 1))
  ELSE s

\* strings.EqualFold
EqualFold(a, b) == ToLower(a) = ToLower(b)

\* the keys of the modelled documents
kId == <<"i", "d">>
kPwd == <<"P", "w", "d", "2">>
Keys == {kId, kPwd}

\* keys inside a JSON-valued string
nUser == <<"u", "s", "e", "r">>
nPass == <<"P", "a", "s", "s">>

\* config.DefaultRedactedKeys
DefaultRedactedKeys ==
  << <<"p","a","s","s","w","o","r","d">>, <<"s","e","c","r","e","t">>,
     <<"t","o","k","e","n">>, <<"k","e","y">>,
     <<"c","r","e","d","e","n","t","i","a","l">>, <<"a","u","t","h">>,
     <<"p","w","d">>, <<"p","a","s","s">>, <<"a","p","i","k","e","y">>,
     <<"a","p","i","_","k","e","y">>, <<"a","c","c","e","s","s","_","k","e","y">>,
     <<"s","e","c","r","e","t","_","k","e","y">>,
     <<"p","r","i","v","a","t","e","_","k","e","y">>, <<"c","e","r","t">>,
     <<"c","e","r","t","i","f","i","c","a","t","e">> >>

(***************************************************************************)
(* configuration                                                           *)
(***************************************************************************)
\* Configs.ShouldRedactSecrets / ShouldRedactJSONValues, after the nil default
ShouldRedactSecrets(c) == c.redactSecrets
ShouldRedactJSONValues(c) == c.redactJSONVals

\* Configs.GetRedactedKeys
GetRedactedKeys(c) == IF Len(c.keys) = 0 THEN DefaultRedactedKeys ELSE c.keys

\* Configs.GetSensitiveKeys: the configured sensitive_keys list
GetSensitiveKeys(c) == c.keys

\* a key matches one of the patterns (lowercased key contains lowercased pattern)
MatchesAny(key, patterns) ==
  \E i \in 1..Len(patterns) : Contains(ToLower(key), ToLower(patterns[i]))

\* vault Client.isRedactedKey
VaultIsRedactedKey(c, key) ==
  IF ~ShouldRedactSecrets(c) THEN FALSE
  ELSE MatchesAny(key, GetRedactedKeys(c))

\* awssecretsmanager Client.isRedactedKey
AwsIsRedactedKey(c, key) ==
  IF ShouldRedactSecrets(c) THEN TRUE
  ELSE MatchesAny(key, GetRedactedKeys(c))

\* comparison.shouldRedact
shouldRedact(c, key) ==
  IF ShouldRedactSecrets(c) THEN TRUE
  ELSE MatchesAny(key, GetRedactedKeys(c))

(***************************************************************************)
(* values                                                                  *)
(*   t = "num"    a raw JSON number s as Vault hands it (a json.Number)     *)
(*   t = "float"  a raw JSON number s as json.Unmarshal hands it (a float64)*)
(*   t = "text"   the plain text number s; s = 0 is the empty string        *)
(*   t = "digits" the text that is the decimal form of the number s         *)
(*   t = "sci"    the text that is the exponent form of the number s        *)
(*   t = "quoted" the text that is the JSON string literal of text s        *)
(*   t = "braced" a text in braces that is not valid JSON                   *)
(*   t = "json"   a text holding the JSON object o, laid out as f:          *)
(*                "c" json.Marshal, "i" json.MarshalIndent, "x" other       *)
(***************************************************************************)
Num(n) == [t |-> "num", s |-> n, f |-> "-", o |-> <<>>]
Text(n) == [t |-> "text", s |-> n, f |-> "-", o |-> <<>>]
Float(n) == [t |-> "float", s |-> n, f |-> "-", o |-> <<>>]
Digits(n) == [t |-> "digits", s |-> n, f |-> "-", o |-> <<>>]
Sci(n) == [t |-> "sci", s |-> n, f |-> "-", o |-> <<>>]
Quoted(n) == [t |-> "quoted", s |-> n, f |-> "-", o |-> <<>>]
Json(f, o) == [t |-> "json", s |-> 0, f |-> f, o |-> o]

EmptyString == Text(0)

\* fmt.Sprintf("%v", value): a float64 of seven digits or more is printed with
\* an exponent, a json.Number as its digits
Sprint(v) ==
  CASE v.t = "num" -> Digits(v.s)
    [] v.t = "float" -> IF v.s >= 1000000 THEN Sci(v.s) ELSE Digits(v.s)
    [] OTHER -> v

\* vault IsJSONValue: trimmed text starts and ends with braces or brackets
VaultIsJSONValue(v) == v.t \in {"json", "braced"}

\* awssecretsmanager IsJSONValue / comparison isJSONValue: json.Unmarshal succeeds
AwsIsJSONValue(v) == v.t \in {"json", "digits", "sci", "quoted"}

\* json.Unmarshal([]byte(valueStr), &jsonData) == nil
UnmarshalOK(v) == v.t \in {"json", "digits", "sci", "quoted"}

\* the parsed form of a text for which UnmarshalOK holds
Unmarshal(v) ==
  CASE v.t = "json" -> [j |-> "obj", s |-> 0, o |-> v.o]
    [] v.t \in {"digits", "sci"} -> [j |-> "num", s |-> v.s, o |-> <<>>]
    [] v.t = "quoted" -> [j |-> "str", s |-> v.s, o |-> <<>>]

\* json.Marshal
Marshal(d) ==
  CASE d.j = "obj" -> Json("c", d.o)
    [] d.j = "num" -> Digits(d.s)
    [] d.j = "str" -> Quoted(d.s)

\* json.MarshalIndent(d, "", "  "): an empty object has one layout only
MarshalIndent(d) ==
  CASE d.j = "obj" -> Json(IF DOMAIN d.o = {} THEN "c" ELSE "i", d.o)
    [] d.j = "num" -> Digits(d.s)
    [] d.j = "str" -> Quoted(d.s)

\* extractJSONStructure (the three copies are the same)
extractJSONStructure(d) ==
  IF d.j = "obj" THEN [d EXCEPT !.o = [k \in DOMAIN d.o |-> ""]]
  ELSE [j |-> "str", s |-> 0, o |-> <<>>]

\* vault Client.RedactJSONValues
VaultRedactJSONValues(c, d) ==
  IF ~ShouldRedactJSONValues(c) THEN d
  ELSE IF d.j = "obj"
       THEN [d EXCEPT !.o = [k \in DOMAIN d.o |->
                               IF VaultIsRedactedKey(c, k) THEN "****" ELSE d.o[k]]]
       ELSE d

\* awssecretsmanager Client.RedactJSONValues
AwsRedactJSONValues(c, d) ==
  IF d.j = "obj"
  THEN [d EXCEPT !.o = [k \in DOMAIN d.o |->
                          IF AwsIsRedactedKey(c, k) THEN "(redacted)" ELSE d.o[k]]]
  ELSE d

\* comparison.redactJSONValues
redactJSONValues(c, d) ==
  IF d.j = "obj"
  THEN [d EXCEPT !.o = [k \in DOMAIN d.o |->
                          IF shouldRedact(c, k) THEN "(redacted)" ELSE d.o[k]]]
  ELSE d

(***************************************************************************)
(* documents and cells                                                     *)
(***************************************************************************)
EmptyDoc == <<>>
Absent == [st |-> "none", d |-> EmptyDoc, sc |-> EmptyString]
DocCell(d) == [st |-> "doc", d |-> d, sc |-> EmptyString]
ScalarCell(v) == [st |-> "scalar", d |-> EmptyDoc, sc |-> v]

\* the key under which awssecretsmanager GetSecret wraps a bare scalar
kValue == <<"v", "a", "l", "u", "e">>

(***************************************************************************)
(* environments and locations                                              *)
(***************************************************************************)
VaultEnvs == {"dev", "uat"}
AwsEnvs == {"stg", "prd"}
Envs == VaultEnvs \cup AwsEnvs
Engines == {"kv", "secret"}
Paths == {"p", "q", "r"}

\* an EnvironmentConfig; Role plays no part in the lookup
EnvironmentConfig(url, tokenEnv, store) ==
  [URL |-> url, TokenEnv |-> tokenEnv, Store |-> store]

NoEnvironment == EnvironmentConfig("", "", "")

\* Configs.GetEnvironmentConfig on the Environments map envs
GetEnvironmentConfig(envs, env) ==
  IF env \notin DOMAIN envs
  THEN [err |-> "not-found", config |-> NoEnvironment]
  ELSE LET config == envs[env]
       IN IF config.URL = "" /\ config.Store = "vault"
          THEN [err |-> "no-url", config |-> NoEnvironment]
          ELSE IF config.TokenEnv = "" /\ config.Store = "vault"
          THEN [err |-> "no-token-env", config |-> NoEnvironment]
          ELSE IF config.Store # "" /\ config.Store # "vault"
          THEN [err |-> "unsupported-store", config |-> NoEnvironment]
          ELSE [err |-> "", config |-> config]

\* Configs.Environments of the configuration file the commands read: two Vault
\* environments and two flat-store environments, each fully specified
Environments ==
  [e \in Envs |-> IF e \in VaultEnvs
                  THEN EnvironmentConfig("https://vault", "VAULT_TOKEN", "vault")
                  ELSE EnvironmentConfig("", "", "awssecretsmanager")]

\* EnvironmentConfig.Store as the configuration file gives it. A command reads it
\* from the result of GetEnvironmentConfig; a client is built from the entry itself
StoreOf(env) == IF env \in DOMAIN Environments THEN Environments[env].Store ELSE ""

(***************************************************************************)
(* backend calls.  A fault is what the backend call of this step does:     *)
(*   "none"  it answers;  "fail"  it fails with a text without "not found"; *)
(*   "failnf"  it fails with a text that contains "not found";             *)
(*   "listnf"  (Vault) the ListMounts call fails with such a text.          *)
(* An error is recorded by the two substring tests the callers apply.      *)
(***************************************************************************)
VaultFaults == {"none", "fail", "failnf", "listnf"}
AwsFaults == {"none", "fail", "failnf"}

NoErr == [is |-> FALSE, secretNotFound |-> FALSE, notFound |-> FALSE]
Err(snf, nf) == [is |-> TRUE, secretNotFound |-> snf, notFound |-> nf]

\* vault Client.GetSecret on the client of (env, kvEngine); the fault is that of
\* the KVv2 Get call
VaultGetSecret(env, kvEngine, path, fault) ==
  IF StoreOf(env) # "vault" \/ path \notin Paths THEN [err |-> Err(FALSE, FALSE), data |-> EmptyDoc]
  ELSE IF fault = "listnf" THEN [err |-> Err(FALSE, TRUE), data |-> EmptyDoc]
  ELSE IF kvEngine \notin mounts[env] THEN [err |-> Err(FALSE, FALSE), data |-> EmptyDoc]
  ELSE IF fault = "failnf" THEN [err |-> Err(TRUE, TRUE), data |-> EmptyDoc]
  ELSE IF fault = "fail" THEN [err |-> Err(FALSE, FALSE), data |-> EmptyDoc]
  ELSE IF vault[<<env, kvEngine, path>>].st = "none"
       THEN [err |-> Err(TRUE, TRUE), data |-> EmptyDoc]
  ELSE [err |-> NoErr, data |-> vault[<<env, kvEngine, path>>].d]

\* json.Unmarshal into map[string]interface{}: every number of a flat-store
\* document is a float64 in what GetSecret returns
Float64Data(data) ==
  [k \in DOMAIN data |-> IF data[k].t = "num" THEN Float(data[k].s) ELSE data[k]]

\* awssecretsmanager Client.GetSecret on the client of env
AwsGetSecret(env, path, fault) ==
  IF StoreOf(env) # "awssecretsmanager" \/ path \notin Paths
  THEN [err |-> Err(FALSE, FALSE), data |-> EmptyDoc, isJSON |-> FALSE]
  ELSE IF fault = "failnf"
  THEN [err |-> Err(FALSE, TRUE), data |-> EmptyDoc, isJSON |-> FALSE]
  ELSE IF fault = "fail"
  THEN [err |-> Err(FALSE, FALSE), data |-> EmptyDoc, isJSON |-> FALSE]
  ELSE LET cell == aws[<<env, path>>]
       IN CASE cell.st = "none" ->
                 [err |-> Err(TRUE, TRUE), data |-> EmptyDoc, isJSON |-> FALSE]
            [] cell.st = "scalar" ->
                 [err |-> NoErr, data |-> (kValue :> cell.sc), isJSON |-> FALSE]
            [] cell.st = "doc" ->
                 [err |-> NoErr, data |-> Float64Data(cell.d), isJSON |-> TRUE]

\* vault Client.EnsureKVEngineExists on the client of env: the mounts afterwards
\* and whether the call succeeded; the fault is that of ListMounts or of Mount
EnsureKVEngineExists(env, kvEngine, fault) ==
  IF StoreOf(env) # "vault" \/ fault # "none"
  THEN [ok |-> FALSE, wrote |-> FALSE, mounts |-> mounts]
  ELSE IF kvEngine \in mounts[env] THEN [ok |-> TRUE, wrote |-> FALSE, mounts |-> mounts]
  ELSE [ok |-> TRUE, wrote |-> TRUE,
        mounts |-> [mounts EXCEPT ![env] = @ \cup {kvEngine}]]

\* KVv2(kvEngine).Put(path, data) on the client of env, m the mounts at the call
VaultPutIn(m, env, kvEngine, path, data, fault) ==
  IF StoreOf(env) # "vault" \/ kvEngine \notin m[env] \/ fault # "none"
  THEN [ok |-> FALSE, vault |-> vault]
  ELSE [ok |-> TRUE, vault |-> [vault EXCEPT ![<<env, kvEngine, path>>] = DocCell(data)]]

VaultPut(env, kvEngine, path, data, fault) ==
  VaultPutIn(mounts, env, kvEngine, path, data, fault)

\* vault Client.WriteSecret(path, data): the document at path is replaced by data
WriteSecret(env, kvEngine, path, data, fault) ==
  VaultPut(env, kvEngine, path, data, fault)

\* svc.UpdateSecret when the caller saw the secret, svc.CreateSecret otherwise;
\* json.Marshal writes a float64 kept from the target as the number it is
AwsPutSecret(env, path, targetExists, cell, fault) ==
  IF StoreOf(env) # "awssecretsmanager" \/ fault # "none"
     \/ (targetExists /\ aws[<<env, path>>].st = "none")
     \/ (~targetExists /\ aws[<<env, path>>].st # "none")
  THEN [ok |-> FALSE, aws |-> aws]
  ELSE [ok |-> TRUE,
        aws |-> [aws EXCEPT ![<<env, path>>] =
                   [cell EXCEPT !.d = [k \in DOMAIN cell.d |->
                                         IF cell.d[k].t = "float" THEN Num(cell.d[k].s)
                                         ELSE cell.d[k]]]]]

(***************************************************************************)
(* the copy loop                                                           *)
(***************************************************************************)
NoOptions ==
  [Overwrite |-> FALSE, CopyConfig |-> FALSE, CopySecrets |-> FALSE,
   OnlyCopyKeys |-> FALSE, Prune |-> FALSE]

\* the two "Skip based on options" tests
SkipByOptions(isRedactedKey, options) ==
  \/ isRedactedKey /\ ~options.CopySecrets /\ ~options.CopyConfig
  \/ ~isRedactedKey /\ options.CopySecrets /\ ~options.CopyConfig

\* vault Client.CopySecret: the value stored for a key that is copied
VaultCopyValue(c, options, key, value) ==
  LET isRedactedKey == VaultIsRedactedKey(c, key)
      valueStr == Sprint(value)
  IN IF ShouldRedactJSONValues(c) /\ VaultIsJSONValue(valueStr)
     THEN IF UnmarshalOK(valueStr)
          THEN LET jsonData == Unmarshal(valueStr)
               IN Marshal(IF options.OnlyCopyKeys THEN extractJSONStructure(jsonData)
                          ELSE IF isRedactedKey /\ ~options.CopySecrets
                               THEN VaultRedactJSONValues(c, jsonData)
                               ELSE jsonData)
          ELSE valueStr
     ELSE IF options.OnlyCopyKeys
             \/ (isRedactedKey /\ ~options.CopySecrets /\ ShouldRedactSecrets(c))
          THEN EmptyString
          ELSE valueStr

\* vault Client.CopySecret: the keys of the source that the loop copies
VaultCopiedKeys(c, options, start, data) ==
  {k \in DOMAIN data :
     /\ ~(k \in DOMAIN start /\ ~options.Overwrite)
     /\ ~SkipByOptions(VaultIsRedactedKey(c, k), options)}

\* vault Client.CopySecret with a resultData that does not start from the
\* target's data: only the keys copied by this run are written
VaultMergeCopiedOnly(c, options, start, data) ==
  LET copied == VaultCopiedKeys(c, options, start, data)
  IN [k \in copied |-> VaultCopyValue(c, options, k, data[k])]

\* vault Client.CopySecret: resultData, from the target's data and the source's
VaultMerge(c, options, start, data) ==
  LET copied == VaultCopiedKeys(c, options, start, data)
  IN [k \in DOMAIN start \cup copied |->
        IF k \in copied THEN VaultCopyValue(c, options, k, data[k]) ELSE start[k]]

\* awssecretsmanager Client.CopySecret: the value stored for a copied key
AwsCopyValue(c, options, key, value) ==
  LET isRedactedKey == AwsIsRedactedKey(c, key)
      valueStr == Sprint(value)
  IN IF ShouldRedactJSONValues(c) /\ AwsIsJSONValue(valueStr)
     THEN IF UnmarshalOK(valueStr)
          THEN LET jsonData == Unmarshal(valueStr)
               IN Marshal(IF options.OnlyCopyKeys THEN extractJSONStructure(jsonData)
                          ELSE IF isRedactedKey /\ ~options.CopySecrets
                               THEN AwsRedactJSONValues(c, jsonData)
                               ELSE jsonData)
          ELSE valueStr
     ELSE IF options.OnlyCopyKeys
             \/ (isRedactedKey /\ ~options.CopySecrets /\ ShouldRedactSecrets(c))
          THEN EmptyString
          ELSE valueStr

\* awssecretsmanager Client.CopySecret: the keys the loop copies
AwsCopiedKeys(c, options, start, data) ==
  {k \in DOMAIN data :
     /\ ~(k \in DOMAIN start /\ ~options.Overwrite)
     /\ ~SkipByOptions(AwsIsRedactedKey(c, k), options)}

\* awssecretsmanager Client.CopySecret: resultData
AwsMerge(c, options, start, data) ==
  LET copied == AwsCopiedKeys(c, options, start, data)
  IN [k \in DOMAIN start \cup copied |->
        IF k \in copied THEN AwsCopyValue(c, options, k, data[k]) ELSE start[k]]

\* the data resultData starts from: the target's, unless absent, bare or pruned
AwsStart(options, targetExists, targetIsJSON, targetData) ==
  IF targetExists /\ targetIsJSON /\ ~options.Prune THEN targetData ELSE EmptyDoc

\* CopyVaultWithAWS, target Vault: the value stored for a key
CrossCopyValue(c, options, key, value) ==
  LET redacted == shouldRedact(c, key)
      valueStr == Sprint(value)
  IN IF ShouldRedactJSONValues(c) /\ AwsIsJSONValue(valueStr)
     THEN IF UnmarshalOK(valueStr)
          THEN LET jsonData == Unmarshal(valueStr)
               IN Marshal(IF options.OnlyCopyKeys THEN extractJSONStructure(jsonData)
                          ELSE IF redacted /\ ~options.CopySecrets
                               THEN redactJSONValues(c, jsonData)
                               ELSE jsonData)
          ELSE valueStr
     ELSE IF options.OnlyCopyKeys
             \/ (redacted /\ ~options.CopySecrets /\ ShouldRedactSecrets(c))
          THEN EmptyString
          ELSE valueStr

\* CopyVaultWithAWS, target Vault: resultData, built from the source alone
CrossMerge(c, options, data) ==
  LET copied == {k \in DOMAIN data : ~SkipByOptions(shouldRedact(c, k), options)}
  IN [k \in copied |-> CrossCopyValue(c, options, k, data[k])]

\* awssecretsmanager Client.CopySecretData(data, targetPath, options) on the
\* client of env: the fetch of the target, the loop over data, the one write
CopySecretData(env, data, targetPath, options, ft, wf) ==
  LET t == AwsGetSecret(env, targetPath, ft)
      targetExists == ~t.err.is
      targetIsJSON == IF targetExists THEN t.isJSON ELSE TRUE
      start == AwsStart(options, targetExists, targetIsJSON, t.data)
      resultData == AwsMerge(cfg, options, start, data)
      w == AwsPutSecret(env, targetPath, targetExists, DocCell(resultData), wf)
  IN IF t.err.is /\ ~t.err.secretNotFound
     THEN [ok |-> FALSE, aws |-> aws, msg |-> "target-fetch-failed"]
     ELSE IF ~w.ok THEN [ok |-> FALSE, aws |-> aws, msg |-> "write-failed"]
     ELSE [ok |-> TRUE, aws |-> w.aws, msg |-> "copied"]

\* vault Client.CopySecret writing the target key by key: a write that fails
\* leaves the keys written before it in the target
VaultCopySecretPerKey(env, kvEngine, sourcePath, targetPath, options, fs, ft, wf) ==
  LET s == VaultGetSecret(env, kvEngine, sourcePath, fs)
      t == VaultGetSecret(env, kvEngine, targetPath, ft)
      targetExists == ~t.err.is
      start == IF targetExists THEN t.data ELSE EmptyDoc
      resultData == VaultMerge(cfg, options, start, s.data)
      changed == {k \in DOMAIN resultData : k \notin DOMAIN start \/ start[k] # resultData[k]}
      first == IF changed = {} THEN start
               ELSE LET k == CHOOSE x \in changed : TRUE
                    IN (k :> resultData[k]) @@ start
      w == VaultPut(env, kvEngine, targetPath, resultData, wf)
      part == VaultPut(env, kvEngine, targetPath, first, "none")
  IN IF s.err.is THEN [ok |-> FALSE, vault |-> vault, msg |-> "source-fetch-failed"]
     ELSE IF t.err.is /\ ~t.err.secretNotFound
          THEN [ok |-> FALSE, vault |-> vault, msg |-> "target-fetch-failed"]
     ELSE IF ~w.ok THEN [ok |-> FALSE, vault |-> part.vault, msg |-> "write-failed"]
     ELSE [ok |-> TRUE, vault |-> w.vault, msg |-> "copied"]

\* vault Client.CopySecret(sourcePath, targetPath, options) on the client of
\* (env, kvEngine): both fetches, the loop and the one Put
VaultCopySecret(env, kvEngine, sourcePath, targetPath, options, fs, ft, wf) ==
  LET s == VaultGetSecret(env, kvEngine, sourcePath, fs)
      t == VaultGetSecret(env, kvEngine, targetPath, ft)
      targetExists == ~t.err.is
      start == IF targetExists THEN t.data ELSE EmptyDoc
      resultData == VaultMerge(cfg, options, start, s.data)
      w == VaultPut(env, kvEngine, targetPath, resultData, wf)
  IN IF s.err.is THEN [ok |-> FALSE, vault |-> vault, msg |-> "source-fetch-failed"]
     ELSE IF t.err.is /\ ~t.err.secretNotFound
          THEN [ok |-> FALSE, vault |-> vault, msg |-> "target-fetch-failed"]
     ELSE IF ~w.ok THEN [ok |-> FALSE, vault |-> vault, msg |-> "write-failed"]
     ELSE [ok |-> TRUE, vault |-> w.vault, msg |-> "copied"]

\* awssecretsmanager Client.CopySecret(sourcePath, targetPath, options) on the
\* client of env: both fetches, the bare-secret branch or the loop, the one write
AwsCopySecret(env, sourcePath, targetPath, options, fs, ft, wf) ==
  LET s == AwsGetSecret(env, sourcePath, fs)
      t == AwsGetSecret(env, targetPath, ft)
      targetExists == ~t.err.is
      targetIsJSON == IF targetExists THEN t.isJSON ELSE s.isJSON
      valueStr == IF ShouldRedactSecrets(cfg) /\ ~options.CopySecrets
                  THEN EmptyString ELSE Sprint(s.data[kValue])
      start == AwsStart(options, targetExists, targetIsJSON, t.data)
      resultData == AwsMerge(cfg, options, start, s.data)
      w == AwsPutSecret(env, targetPath, targetExists,
                        IF s.isJSON THEN DocCell(resultData) ELSE ScalarCell(valueStr), wf)
  IN IF s.err.is THEN [ok |-> FALSE, aws |-> aws, msg |-> "source-fetch-failed"]
     ELSE IF t.err.is /\ ~t.err.secretNotFound
          THEN [ok |-> FALSE, aws |-> aws, msg |-> "target-fetch-failed"]
     ELSE IF ~w.ok THEN [ok |-> FALSE, aws |-> aws, msg |-> "write-failed"]
     ELSE [ok |-> TRUE, aws |-> w.aws, msg |-> "copied"]

(***************************************************************************)
(* the invocation in progress                                              *)
(***************************************************************************)
Exit(o, code, msg) == [o EXCEPT !.pc = "exit", !.code = code, !.msg = msg]

FaultCount(f) == IF f = "none" THEN 0 ELSE 1

\* the faults a step may draw, given those already spent
MayFail(fs) == hist.faults + fs <= MaxFaults

\* promptForConfirmation: the trimmed and lowercased answer is y or yes
promptForConfirmation(answer) ==
  ToLower(TrimSpace(answer)) \in {<<"y">>, <<"y", "e", "s">>}

(***************************************************************************)
(* split                                                                   *)
(***************************************************************************)
\* the test of the partition loop of splitCmd.Run on one key
SplitIsSensitive(k, sensitiveKeys) ==
  \E i \in 1..Len(sensitiveKeys) :
     \/ EqualFold(k, sensitiveKeys[i])
     \/ Contains(ToLower(k), ToLower(sensitiveKeys[i]))

\* sensitiveData and newSourceData of splitCmd.Run
SensitiveData(doc, sensitiveKeys) ==
  [k \in {x \in DOMAIN doc : SplitIsSensitive(x, sensitiveKeys)} |-> doc[k]]
NewSourceData(doc, sensitiveKeys) ==
  [k \in {x \in DOMAIN doc : ~SplitIsSensitive(x, sensitiveKeys)} |-> doc[k]]

\* the client that reads and writes the target: the older split command uses the
\* source client for both locations
SplitTargetEnv(o) == IF o.ver = "vaultonly" THEN o.sourceEnv ELSE o.targetEnv
SplitTargetKV(o) == IF o.ver = "vaultonly" THEN o.sourceKV ELSE o.targetKV

\* splitCmd.Run up to and including EnsureKVEngineExists: the gate, the lookup of
\* both environments, the checks on the stores and the engine
SplitStart ==
  /\ op.kind = "split" /\ op.pc = "start"
  /\ \E fault \in {"none", "fail"} :
       /\ MayFail(FaultCount(fault))
       /\ LET tEnv == IF op.targetEnv = "" THEN op.sourceEnv ELSE op.targetEnv
              tKV == IF op.targetKV = "" THEN op.sourceKV ELSE op.targetKV
              o1 == [op EXCEPT !.targetEnv = tEnv]
              o2 == [o1 EXCEPT !.targetKV = tKV]
              e == EnsureKVEngineExists(op.sourceEnv, tKV, fault)
              gated == op.dryRun \/ (~op.autoApprove /\ ~promptForConfirmation(op.answer))
              sourceConfig == GetEnvironmentConfig(Environments, op.sourceEnv)
              targetConfig == GetEnvironmentConfig(Environments, tEnv)
              isVault == StoreOf(op.sourceEnv) = "vault"
              ensures == ~gated /\ isVault /\ op.sourceKV # ""
                         /\ sourceConfig.err = "" /\ targetConfig.err = ""
                         /\ ~(op.ver = "vaultonly" /\ StoreOf(tEnv) # "vault")
          IN /\ (fault # "none") => ensures
             /\ op' = IF op.dryRun THEN Exit(o1, 0, "dry-run")
                      ELSE IF gated THEN Exit(o1, 0, "cancelled")
                      ELSE IF sourceConfig.err # "" THEN Exit(o1, 1, sourceConfig.err)
                      ELSE IF targetConfig.err # "" THEN Exit(o1, 1, targetConfig.err)
                      ELSE IF op.ver = "vaultonly"
                              /\ (~isVault \/ StoreOf(tEnv) # "vault")
                           THEN Exit(o1, 1, "vault-only")
                      ELSE IF op.sourceKV = "" THEN Exit(o1, 1, "no-source-kv")
                      ELSE IF ~e.ok THEN Exit(o2, 1, "ensure-failed")
                      ELSE [o2 EXCEPT !.pc = "getsrc"]
             /\ mounts' = IF ensures THEN e.mounts ELSE mounts
             /\ hist' = [hist EXCEPT
                           !.faults = @ + FaultCount(fault),
                           !.mountWrites = @ + IF ensures /\ e.wrote THEN 1 ELSE 0]
  /\ UNCHANGED <<cfg, vault, aws>>

\* splitCmd.Run, case "vault": the fetch of the source document. The store switch
\* has one case left to enter, GetEnvironmentConfig having refused every other
\* store before it
SplitGetSource ==
  /\ op.kind = "split" /\ op.pc = "getsrc"
  /\ \E fault \in VaultFaults :
       /\ MayFail(FaultCount(fault))
       /\ LET r == VaultGetSecret(op.sourceEnv, op.sourceKV, op.sourcePath, fault)
          IN op' = IF r.err.is THEN Exit(op, 1, "source-fetch-failed")
                   ELSE [op EXCEPT !.pc = "chktgt", !.sourceSecret = r.data]
       /\ hist' = [hist EXCEPT !.faults = @ + FaultCount(fault),
                              !.fetchFaults = @ + FaultCount(fault)]
  /\ UNCHANGED <<cfg, mounts, vault, aws>>

\* the outcome of "Check if target already exists" on a fetch error
SplitTargetVerdict(err) ==
  IF ~err.is THEN "target-exists"
  ELSE IF ~err.notFound THEN "target-check-failed"
  ELSE "absent"

\* splitCmd.Run: the target check, the validation and the partition
SplitCheckTarget ==
  /\ op.kind = "split" /\ op.pc = "chktgt"
  /\ \E fault \in VaultFaults :
       /\ MayFail(FaultCount(fault))
       /\ LET err == VaultGetSecret(SplitTargetEnv(op), SplitTargetKV(op),
                                    op.targetPath, fault).err
              verdict == SplitTargetVerdict(err)
              sensitiveKeys == GetSensitiveKeys(cfg)
              sensitiveData == SensitiveData(op.sourceSecret, sensitiveKeys)
              newSourceData == NewSourceData(op.sourceSecret, sensitiveKeys)
          IN op' = IF verdict # "absent" THEN Exit(op, 1, verdict)
                   ELSE IF op.ver # "vaultonly" /\ DOMAIN op.sourceSecret = {}
                        THEN Exit(op, 1, "source-empty")
                   ELSE IF Len(sensitiveKeys) = 0 THEN Exit(op, 1, "no-sensitive-keys")
                   ELSE IF DOMAIN sensitiveData = {} THEN Exit(op, 1, "no-keys-matched")
                   ELSE [op EXCEPT !.pc = "wrtgt",
                                   !.sensitiveData = sensitiveData,
                                   !.newSourceData = newSourceData]
       /\ hist' = [hist EXCEPT !.faults = @ + FaultCount(fault),
                                   !.fetchFaults = @ + FaultCount(fault)]
  /\ UNCHANGED <<cfg, mounts, vault, aws>>

\* splitCmd.Run without the exit on a failed target write
SplitWriteTargetUnchecked ==
  /\ op.kind = "split" /\ op.pc = "wrtgt"
  /\ \E wf \in {"none", "fail"} :
       /\ MayFail(FaultCount(wf))
       /\ LET w == WriteSecret(SplitTargetEnv(op), SplitTargetKV(op),
                               op.targetPath, op.sensitiveData, wf)
          IN /\ vault' = w.vault
             /\ op' = [op EXCEPT !.pc = "wrsrc"]
             /\ hist' = [hist EXCEPT !.docWrites = @ + IF w.ok THEN 1 ELSE 0,
                                     !.targetWritten = w.ok]
  /\ UNCHANGED <<cfg, mounts, aws>>

\* splitCmd.Run, case "vault": "Create target with sensitive keys"
SplitWriteTarget ==
  /\ op.kind = "split" /\ op.pc = "wrtgt"
  /\ \E wf \in {"none", "fail"} :
       /\ MayFail(FaultCount(wf))
       /\ LET w == WriteSecret(SplitTargetEnv(op), SplitTargetKV(op),
                               op.targetPath, op.sensitiveData, wf)
          IN /\ vault' = w.vault
             /\ op' = IF w.ok THEN [op EXCEPT !.pc = "wrsrc"]
                      ELSE Exit(op, 1, "target-write-failed")
             /\ hist' = [hist EXCEPT !.faults = @ + FaultCount(wf),
                                     !.docWrites = @ + IF w.ok THEN 1 ELSE 0,
                                     !.targetWritten = w.ok]
  /\ UNCHANGED <<cfg, mounts, aws>>

\* splitCmd.Run, case "vault": "Update source with non-sensitive keys", then the
\* log record
SplitWriteSource ==
  /\ op.kind = "split" /\ op.pc = "wrsrc"
  /\ \E wf \in {"none", "fail"} :
       /\ MayFail(FaultCount(wf))
       /\ LET w == WriteSecret(op.sourceEnv, op.sourceKV, op.sourcePath,
                               op.newSourceData, wf)
          IN /\ vault' = w.vault
             /\ op' = IF w.ok THEN Exit(op, 0, "split")
                      ELSE Exit(op, 1, "source-update-failed")
             /\ hist' = [hist EXCEPT
                  !.faults = @ + FaultCount(wf),
                  !.docWrites = @ + IF w.ok THEN 1 ELSE 0,
                  !.sourceWritten = w.ok,
                  !.log = IF w.ok
                          THEN Append(@, [success |-> TRUE,
                                          keys |-> DOMAIN op.sensitiveData])
                          ELSE @]
  /\ UNCHANGED <<cfg, mounts, aws>>

(***************************************************************************)
(* copy                                                                    *)
(***************************************************************************)
\* copyCmd.Run, cross-store branch: the engine taken for an omitted --target-kv
DefaultCrossTargetKV == "secret"

\* copyCmd.Run up to the choice of the branch, with the confirmation prompt left
\* out: only --dry-run holds the invocation back
CopyStartNoPrompt ==
  /\ op.kind = "copy" /\ op.pc = "start"
  /\ \E fault \in {"none", "fail"} :
       /\ MayFail(FaultCount(fault))
       /\ LET tPath == IF op.targetPath = "" THEN op.sourcePath ELSE op.targetPath
              same == /\ op.sourceEnv = op.targetEnv
                      /\ op.sourcePath = tPath
                      /\ op.sourceKV = op.targetKV
              gated == op.dryRun
              sStore == StoreOf(op.sourceEnv)
              tStore == StoreOf(op.targetEnv)
              tKV == IF op.targetKV # "" \/ tStore # "vault" THEN op.targetKV
                     ELSE IF sStore = tStore THEN op.sourceKV
                     ELSE DefaultCrossTargetKV
              o1 == [op EXCEPT !.targetPath = tPath]
              o2 == [o1 EXCEPT !.targetKV = tKV]
              ensures == /\ ~same /\ ~gated
                         /\ sStore = "vault" /\ tStore = "vault" /\ op.sourceKV # ""
              sourceConfig == GetEnvironmentConfig(Environments, op.sourceEnv)
              targetConfig == GetEnvironmentConfig(Environments, op.targetEnv)
              e == EnsureKVEngineExists(op.targetEnv, tKV, fault)
          IN /\ (fault # "none") => ensures
             /\ op' = IF same THEN Exit(o1, 1, "same-location")
                      ELSE IF op.dryRun THEN Exit(o1, 0, "dry-run")
                      ELSE IF gated THEN Exit(o1, 0, "cancelled")
                      ELSE IF sourceConfig.err # "" THEN Exit(o1, 1, sourceConfig.err)
                      ELSE IF targetConfig.err # "" THEN Exit(o1, 1, targetConfig.err)
                      ELSE IF sStore = "vault" /\ op.sourceKV = ""
                           THEN Exit(o1, 1, "no-source-kv")
                      ELSE IF sStore # tStore THEN [o2 EXCEPT !.pc = "cross"]
                      ELSE IF sStore # "vault" THEN [o1 EXCEPT !.pc = "aws"]
                      ELSE IF ~e.ok THEN Exit(o2, 1, "ensure-failed")
                      ELSE [o2 EXCEPT !.pc = "vault"]
             /\ mounts' = IF ensures THEN e.mounts ELSE mounts
             /\ hist' = [hist EXCEPT
                           !.faults = @ + FaultCount(fault),
                           !.mountWrites = @ + IF ensures /\ e.wrote THEN 1 ELSE 0]
  /\ UNCHANGED <<cfg, vault, aws>>

\* copyCmd.Run up to the choice of the branch, EnsureKVEngineExists of the
\* same-store Vault case included
CopyStart ==
  /\ op.kind = "copy" /\ op.pc = "start"
  /\ \E fault \in {"none", "fail"} :
       /\ MayFail(FaultCount(fault))
       /\ LET tPath == IF op.targetPath = "" THEN op.sourcePath ELSE op.targetPath
              same == /\ op.sourceEnv = op.targetEnv
                      /\ op.sourcePath = tPath
                      /\ op.sourceKV = op.targetKV
              gated == op.dryRun \/ (~op.autoApprove /\ ~promptForConfirmation(op.answer))
              sStore == StoreOf(op.sourceEnv)
              tStore == StoreOf(op.targetEnv)
              tKV == IF op.targetKV # "" \/ tStore # "vault" THEN op.targetKV
                     ELSE IF sStore = tStore THEN op.sourceKV
                     ELSE DefaultCrossTargetKV
              o1 == [op EXCEPT !.targetPath = tPath]
              o2 == [o1 EXCEPT !.targetKV = tKV]
              ensures == /\ ~same /\ ~gated
                         /\ sStore = "vault" /\ tStore = "vault" /\ op.sourceKV # ""
              sourceConfig == GetEnvironmentConfig(Environments, op.sourceEnv)
              targetConfig == GetEnvironmentConfig(Environments, op.targetEnv)
              e == EnsureKVEngineExists(op.targetEnv, tKV, fault)
          IN /\ (fault # "none") => ensures
             /\ op' = IF same THEN Exit(o1, 1, "same-location")
                      ELSE IF op.dryRun THEN Exit(o1, 0, "dry-run")
                      ELSE IF gated THEN Exit(o1, 0, "cancelled")
                      ELSE IF sourceConfig.err # "" THEN Exit(o1, 1, sourceConfig.err)
                      ELSE IF targetConfig.err # "" THEN Exit(o1, 1, targetConfig.err)
                      ELSE IF sStore = "vault" /\ op.sourceKV = ""
                           THEN Exit(o1, 1, "no-source-kv")
                      ELSE IF sStore # tStore THEN [o2 EXCEPT !.pc = "cross"]
                      ELSE IF sStore # "vault" THEN [o1 EXCEPT !.pc = "aws"]
                      ELSE IF ~e.ok THEN Exit(o2, 1, "ensure-failed")
                      ELSE [o2 EXCEPT !.pc = "vault"]
             /\ mounts' = IF ensures THEN e.mounts ELSE mounts
             /\ hist' = [hist EXCEPT
                           !.faults = @ + FaultCount(fault),
                           !.mountWrites = @ + IF ensures /\ e.wrote THEN 1 ELSE 0]
  /\ UNCHANGED <<cfg, vault, aws>>

\* logCopyOperation as copyCmd.Run calls it: result.Keys is never set
CopyLogged(h) == [h EXCEPT !.log = Append(@, [success |-> TRUE, keys |-> {}])]

\* copyCmd.Run, case "vault": CopySecret on the client of the target environment
CopyVaultCase ==
  /\ op.kind = "copy" /\ op.pc = "vault"
  /\ \E fs \in VaultFaults, ft \in VaultFaults, wf \in {"none", "fail"} :
       /\ MayFail(FaultCount(fs) + FaultCount(ft) + FaultCount(wf))
       /\ LET r == VaultCopySecret(op.targetEnv, op.targetKV, op.sourcePath,
                                   op.targetPath, op.options, fs, ft, wf)
              h == [hist EXCEPT
                      !.faults = @ + FaultCount(fs) + FaultCount(ft) + FaultCount(wf),
                      !.fetchFaults = @ + FaultCount(fs) + FaultCount(ft),
                      !.docWrites = @ + IF r.ok THEN 1 ELSE 0,
                      !.targetWritten = r.ok]
          IN /\ vault' = r.vault
             /\ op' = Exit(op, IF r.ok THEN 0 ELSE 1, r.msg)
             /\ hist' = IF r.ok THEN CopyLogged(h) ELSE h
  /\ UNCHANGED <<cfg, mounts, aws>>

\* awssecretsmanager Client.CopySecret called on a client of the flat store. The
\* commands never make that call, GetEnvironmentConfig refusing the store before
\* the clients are built: the call is one a program importing the package makes
CopyAwsCase ==
  /\ op.kind = "copy" /\ op.pc = "aws"
  /\ \E fs \in AwsFaults, ft \in AwsFaults, wf \in {"none", "fail"} :
       /\ MayFail(FaultCount(fs) + FaultCount(ft) + FaultCount(wf))
       /\ LET r == AwsCopySecret(op.targetEnv, op.sourcePath, op.targetPath,
                                 op.options, fs, ft, wf)
              h == [hist EXCEPT
                      !.faults = @ + FaultCount(fs) + FaultCount(ft) + FaultCount(wf),
                      !.fetchFaults = @ + FaultCount(fs) + FaultCount(ft),
                      !.docWrites = @ + IF r.ok THEN 1 ELSE 0,
                      !.targetWritten = r.ok]
          IN /\ aws' = r.aws
             /\ op' = Exit(op, IF r.ok THEN 0 ELSE 1, r.msg)
             /\ hist' = h
  /\ UNCHANGED <<cfg, mounts, vault>>

\* awssecretsmanager Client.CopySecretData called on a client of the flat store
\* with the in-memory document op.data
CopyDataCase ==
  /\ op.kind = "copy" /\ op.pc = "data"
  /\ \E ft \in AwsFaults, wf \in {"none", "fail"} :
       /\ MayFail(FaultCount(ft) + FaultCount(wf))
       /\ LET r == CopySecretData(op.targetEnv, op.data, op.targetPath, op.options, ft, wf)
          IN /\ aws' = r.aws
             /\ op' = Exit(op, IF r.ok THEN 0 ELSE 1, r.msg)
             /\ hist' = [hist EXCEPT
                           !.faults = @ + FaultCount(ft) + FaultCount(wf),
                           !.fetchFaults = @ + FaultCount(ft),
                           !.docWrites = @ + IF r.ok THEN 1 ELSE 0,
                           !.targetWritten = r.ok]
  /\ UNCHANGED <<cfg, mounts, vault>>

\* comparison.copyWithinVault: EnsureKVEngineExists on the target client, the
\* existence check on the source client, the same-location test, then CopySecret
\* on the target client. An engine that was just mounted holds no document, so
\* the CopySecret that follows finds no source in it
copyWithinVault(o, ef, f0, fs, ft, wf) ==
  LET e == EnsureKVEngineExists(o.targetEnv, o.targetKV, ef)
      s == VaultGetSecret(o.sourceEnv, o.sourceKV, o.secretPath, f0)
      same == o.secretPath = o.targetPath /\ o.sourceEnv = o.targetEnv
      r == VaultCopySecret(o.targetEnv, o.targetKV, o.secretPath, o.targetPath,
                           o.options, fs, ft, wf)
      stop(msg) == [ok |-> FALSE, msg |-> msg, mounts |-> e.mounts, vault |-> vault,
                    mounted |-> e.wrote]
  IN IF ~e.ok THEN [ok |-> FALSE, msg |-> "ensure-failed", mounts |-> mounts,
                    vault |-> vault, mounted |-> FALSE]
     ELSE IF s.err.is THEN stop("source-fetch-failed")
     ELSE IF same THEN stop("same-location")
     ELSE IF e.wrote THEN stop("source-fetch-failed")
     ELSE [ok |-> r.ok, msg |-> r.msg, mounts |-> mounts, vault |-> r.vault,
           mounted |-> FALSE]

\* comparison.CopyVaultWithAWS, op.secretPath its source path: the lookup of both
\* environments, which refuses the flat store; two Vault environments are handed
\* to copyWithinVault, two flat-store environments to copyWithinAWS; the copy
\* between the two stores comes last
CopyVaultWithAWS ==
  /\ op.kind = "copy" /\ op.pc = "cross"
  /\ IF GetEnvironmentConfig(Environments, op.sourceEnv).err # ""
     THEN /\ op' = Exit(op, 1, GetEnvironmentConfig(Environments, op.sourceEnv).err)
          /\ UNCHANGED <<mounts, vault, aws, hist>>
     ELSE IF GetEnvironmentConfig(Environments, op.targetEnv).err # ""
     THEN /\ op' = Exit(op, 1, GetEnvironmentConfig(Environments, op.targetEnv).err)
          /\ UNCHANGED <<mounts, vault, aws, hist>>
     ELSE IF StoreOf(op.sourceEnv) = StoreOf(op.targetEnv) /\ StoreOf(op.sourceEnv) = "vault"
     THEN \E ef \in {"none", "fail"}, f0 \in VaultFaults :
          /\ MayFail(FaultCount(ef) + FaultCount(f0))
          /\ \E fs \in VaultFaults, ft \in VaultFaults, wf \in {"none", "fail"} :
            LET n == FaultCount(ef) + FaultCount(f0) + FaultCount(fs) + FaultCount(ft)
                       + FaultCount(wf)
                r == copyWithinVault(op, ef, f0, fs, ft, wf)
            IN /\ MayFail(n)
               /\ mounts' = r.mounts
               /\ vault' = r.vault
               /\ op' = Exit(op, IF r.ok THEN 0 ELSE 1, r.msg)
               /\ hist' = [hist EXCEPT !.faults = @ + n,
                                       !.fetchFaults = @ + FaultCount(f0) + FaultCount(fs)
                                                         + FaultCount(ft),
                                       !.mountWrites = @ + IF r.mounted THEN 1 ELSE 0,
                                       !.docWrites = @ + IF r.ok THEN 1 ELSE 0,
                                       !.targetWritten = r.ok]
               /\ UNCHANGED aws
     ELSE IF StoreOf(op.sourceEnv) = StoreOf(op.targetEnv)
             /\ StoreOf(op.sourceEnv) = "awssecretsmanager"
     THEN \E f0 \in AwsFaults, fs \in AwsFaults, ft \in AwsFaults, wf \in {"none", "fail"} :
            LET n == FaultCount(f0) + FaultCount(fs) + FaultCount(ft) + FaultCount(wf)
                s == AwsGetSecret(op.sourceEnv, op.secretPath, f0)
                r == AwsCopySecret(op.targetEnv, op.secretPath, op.targetPath,
                                   op.options, fs, ft, wf)
                ok == ~s.err.is /\ op.secretPath # op.targetPath /\ r.ok
            IN /\ MayFail(n)
               /\ aws' = IF ok THEN r.aws ELSE aws
               /\ op' = IF s.err.is THEN Exit(op, 1, "source-fetch-failed")
                        ELSE IF op.secretPath = op.targetPath
                        THEN Exit(op, 1, "same-location")
                        ELSE Exit(op, IF r.ok THEN 0 ELSE 1, r.msg)
               /\ hist' = [hist EXCEPT !.faults = @ + n,
                                       !.fetchFaults = @ + FaultCount(f0) + FaultCount(fs)
                                                         + FaultCount(ft),
                                       !.docWrites = @ + IF ok THEN 1 ELSE 0,
                                       !.targetWritten = ok]
               /\ UNCHANGED <<vault, mounts>>
     ELSE IF StoreOf(op.sourceEnv) = StoreOf(op.targetEnv)
     THEN /\ op' = Exit(op, 1, "unsupported-store")
          /\ UNCHANGED <<mounts, vault, aws, hist>>
     ELSE IF {StoreOf(op.sourceEnv), StoreOf(op.targetEnv)} # {"vault", "awssecretsmanager"}
     THEN /\ op' = Exit(op, 1, "cross-store-only")
          /\ UNCHANGED <<mounts, vault, aws, hist>>
     ELSE IF StoreOf(op.sourceEnv) = "vault"
     THEN \E f1 \in VaultFaults, fs \in AwsFaults, ft \in AwsFaults, wf \in {"none", "fail"} :
            LET n == FaultCount(f1) + FaultCount(fs) + FaultCount(ft) + FaultCount(wf)
                s == VaultGetSecret(op.sourceEnv, op.sourceKV, op.secretPath, f1)
                r == AwsCopySecret(op.targetEnv, op.secretPath, op.targetPath,
                                   op.options, fs, ft, wf)
                ok == ~s.err.is /\ r.ok
            IN /\ MayFail(n)
               /\ aws' = IF s.err.is THEN aws ELSE r.aws
               /\ op' = IF s.err.is THEN Exit(op, 1, "source-fetch-failed")
                        ELSE Exit(op, IF r.ok THEN 0 ELSE 1, r.msg)
               /\ hist' = [hist EXCEPT !.faults = @ + n,
                                       !.fetchFaults = @ + FaultCount(f1) + FaultCount(fs)
                                                         + FaultCount(ft),
                                       !.docWrites = @ + IF ok THEN 1 ELSE 0,
                                       !.targetWritten = ok]
               /\ UNCHANGED <<vault, mounts>>
     ELSE \E fs \in AwsFaults, ef \in {"none", "fail"}, wf \in {"none", "fail"} :
            LET n == FaultCount(fs) + FaultCount(ef) + FaultCount(wf)
                s == AwsGetSecret(op.sourceEnv, op.secretPath, fs)
                read == ~s.err.is /\ s.isJSON
                e == EnsureKVEngineExists(op.targetEnv, op.targetKV, ef)
                resultData == CrossMerge(cfg, op.options, s.data)
                w == VaultPutIn(e.mounts, op.targetEnv, op.targetKV, op.targetPath,
                                resultData, wf)
                ok == read /\ e.ok /\ w.ok
            IN /\ MayFail(n)
               /\ mounts' = IF read THEN e.mounts ELSE mounts
               /\ vault' = IF ok THEN w.vault ELSE vault
               /\ op' = IF s.err.is THEN Exit(op, 1, "source-fetch-failed")
                        ELSE IF ~s.isJSON THEN Exit(op, 1, "non-json-source")
                        ELSE IF ~e.ok THEN Exit(op, 1, "ensure-failed")
                        ELSE IF ~w.ok THEN Exit(op, 1, "write-failed")
                        ELSE Exit(op, 0, "copied")
               /\ hist' = [hist EXCEPT
                             !.faults = @ + n,
                             !.fetchFaults = @ + FaultCount(fs),
                             !.mountWrites = @ + IF read /\ e.wrote THEN 1 ELSE 0,
                             !.docWrites = @ + IF ok THEN 1 ELSE 0,
                             !.targetWritten = ok]
               /\ UNCHANGED aws
  /\ UNCHANGED cfg

(***************************************************************************)
(* initial states                                                          *)
(***************************************************************************)
Configs ==
  [redactSecrets : BOOLEAN, redactJSONVals : BOOLEAN,
   keys : {<<>>, << <<"p", "w", "d">> >>}]

\* redact_secrets and redact_json_values left out of the file, one pattern given
DefaultCfg ==
  [redactSecrets |-> TRUE, redactJSONVals |-> FALSE, keys |-> << <<"p", "w", "d">> >>]

JsonBlob == Json("x", (nPass :> "n1") @@ (nUser :> "n2"))

IdValues == {Text(i) : i \in 1..MaxText} \cup {Num(7)}
PwdValues == {Text(i) : i \in 1..MaxText} \cup {JsonBlob}
ValuesOf(k) == IF k = kId THEN IdValues ELSE PwdValues

Docs ==
  UNION { {d \in [ks -> IdValues \cup PwdValues] : \A k \in ks : d[k] \in ValuesOf(k)}
          : ks \in SUBSET Keys }

DocCells == {DocCell(d) : d \in Docs}

Gates ==
  { [dryRun |-> FALSE, autoApprove |-> TRUE, answer |-> <<>>],
    [dryRun |-> TRUE, autoApprove |-> FALSE, answer |-> <<>>],
    [dryRun |-> FALSE, autoApprove |-> FALSE, answer |-> <<"Y">>],
    [dryRun |-> FALSE, autoApprove |-> FALSE, answer |-> <<"y", "e", "s", " ">>],
    [dryRun |-> FALSE, autoApprove |-> FALSE, answer |-> <<"n">>],
    [dryRun |-> FALSE, autoApprove |-> FALSE, answer |-> <<"y", "e">>] }

Approved == [dryRun |-> FALSE, autoApprove |-> TRUE, answer |-> <<>>]

SampleDoc == (kId :> Text(1)) @@ (kPwd :> Text(2))

EmptyVault == [l \in VaultEnvs \X Engines \X Paths |-> Absent]
EmptyAws == [l \in AwsEnvs \X Paths |-> Absent]
MountSets == {{"kv"}, {"kv", "secret"}}

NewHist(v, a, m) ==
  [vault0 |-> v, aws0 |-> a, mounts0 |-> m, faults |-> 0, fetchFaults |-> 0,
   mountWrites |-> 0,
   docWrites |-> 0, targetWritten |-> FALSE, sourceWritten |-> FALSE, log |-> <<>>,
   rivalWrote |-> Absent,
   firstRun |-> [ended |-> FALSE, code |-> 0, vault |-> v, aws |-> a, mounts |-> m]]

\* every document of a mounted engine only
MountsCover(v, m) ==
  \A l \in DOMAIN v : v[l].st # "none" => l[2] \in m[l[1]]

SplitOp(ver, sEnv, tEnv, tKV, gate) ==
  [kind |-> "split", ver |-> ver, pc |-> "start",
   sourceEnv |-> sEnv, targetEnv |-> tEnv, sourcePath |-> "p", targetPath |-> "q",
   sourceKV |-> IF StoreOf(sEnv) = "vault" THEN "kv" ELSE "", targetKV |-> tKV,
   dryRun |-> gate.dryRun, autoApprove |-> gate.autoApprove, answer |-> gate.answer,
   sourceSecret |-> EmptyDoc, sensitiveData |-> EmptyDoc, newSourceData |-> EmptyDoc,
   code |-> 0, msg |-> ""]

\* the locations a split invocation names, once its defaults are applied
SplitSourceLoc(o) ==
  IF StoreOf(o.sourceEnv) = "vault" THEN <<o.sourceEnv, o.sourceKV, o.sourcePath>>
  ELSE <<o.sourceEnv, o.sourcePath>>
SplitTargetLoc(o) ==
  LET tEnv == IF o.targetEnv = "" THEN o.sourceEnv ELSE o.targetEnv
      tKV == IF o.targetKV = "" THEN o.sourceKV ELSE o.targetKV
  IN IF StoreOf(o.sourceEnv) = "vault" THEN <<tEnv, tKV, o.targetPath>>
     ELSE <<tEnv, o.targetPath>>

SplitInvocations ==
  {SplitOp(x[1], x[2], x[3], tKV, Approved) :
     x \in {<<"multi", "dev", "">>, <<"multi", "dev", "uat">>, <<"vaultonly", "dev", "">>},
     tKV \in {"", "secret"}}
  \cup {SplitOp("multi", "stg", tEnv, "", Approved) : tEnv \in {"", "prd"}}

InitSplit ==
  \E o \in SplitInvocations, c \in Configs, gate \in Gates,
     src \in DocCells \cup {Absent, ScalarCell(Text(1))},
     tgt \in {Absent, DocCell(kId :> Text(1))},
     m \in [VaultEnvs -> MountSets] :
    /\ gate # Approved => (c = DefaultCfg /\ src = DocCell(SampleDoc) /\ tgt = Absent)
    /\ op = [o EXCEPT !.dryRun = gate.dryRun, !.autoApprove = gate.autoApprove,
                      !.answer = gate.answer]
    /\ cfg = c
    /\ mounts = m
    /\ IF StoreOf(o.sourceEnv) = "vault"
       THEN /\ src.st # "scalar"
            /\ vault = [EmptyVault EXCEPT ![SplitSourceLoc(o)] = src,
                                          ![SplitTargetLoc(o)] = tgt]
            /\ aws = EmptyAws
       ELSE /\ m = [e \in VaultEnvs |-> {"kv"}]
            /\ vault = EmptyVault
            /\ aws = [EmptyAws EXCEPT ![SplitSourceLoc(o)] = src,
                                      ![SplitTargetLoc(o)] = tgt]
    /\ MountsCover(vault, mounts)
    /\ hist = NewHist(vault, aws, mounts)

NextSplit ==
  \/ SplitStart
  \/ SplitGetSource
  \/ SplitCheckTarget
  \/ SplitWriteTarget
  \/ SplitWriteSource

SpecSplit == InitSplit /\ [][NextSplit]_vars

(***************************************************************************)
(* split beside a second invocation                                        *)
(***************************************************************************)
\* the location the split command reads and writes as its target
SplitUsedTargetLoc(o) ==
  IF StoreOf(o.sourceEnv) # "vault" \/ o.ver # "vaultonly" THEN SplitTargetLoc(o)
  ELSE <<o.sourceEnv, o.sourceKV, o.targetPath>>

\* the documents a second invocation writes
RivalDocs == {DocCell(kId :> Text(2)), DocCell((kId :> Text(1)) @@ (kPwd :> Text(2)))}

\* the target write of a second invocation (a Copy, or a Split of another source)
\* that found the same target absent: KVv2 Put in Vault. It runs once the split
\* has made its check of the target
RivalWriteTarget ==
  /\ op.kind = "split" /\ op.pc = "wrtgt"
  /\ hist.rivalWrote = Absent
  /\ \E cell \in RivalDocs :
       /\ LET loc == SplitUsedTargetLoc(op)
              v == VaultPut(loc[1], loc[2], loc[3], cell.d, "none")
          IN v.ok /\ vault' = v.vault
       /\ hist' = [hist EXCEPT !.rivalWrote = cell]
  /\ UNCHANGED <<cfg, mounts, aws, op>>

NextSplitRace ==
  \/ NextSplit
  \/ RivalWriteTarget

SpecSplitRace == InitSplit /\ [][NextSplitRace]_vars

(***************************************************************************)
(* copy: initial states                                                    *)
(***************************************************************************)
CopyOptionSets ==
  {[NoOptions EXCEPT !.Overwrite = x[1], !.CopyConfig = x[2],
                     !.CopySecrets = x[3], !.OnlyCopyKeys = x[4]] :
     x \in BOOLEAN \X BOOLEAN \X BOOLEAN \X BOOLEAN}

CopyOp(sEnv, tEnv, tPath, sKV, tKV, secretPath) ==
  [kind |-> "copy", pc |-> "start", entry |-> "command",
   sourceEnv |-> sEnv, targetEnv |-> tEnv, sourcePath |-> "p", targetPath |-> tPath,
   secretPath |-> secretPath, sourceKV |-> sKV, targetKV |-> tKV,
   given |-> [targetPath |-> tPath, targetKV |-> tKV], data |-> EmptyDoc,
   options |-> NoOptions,
   dryRun |-> FALSE, autoApprove |-> TRUE, answer |-> <<>>,
   code |-> 0, msg |-> ""]

\* the calls: within Vault, within the flat store, across the two
CopyInvocations ==
  { CopyOp("dev", "dev", "q", "kv", "", ""),
    CopyOp("dev", "dev", "", "kv", "", ""),
    CopyOp("dev", "uat", "", "kv", "", ""),
    CopyOp("dev", "uat", "q", "kv", "secret", ""),
    CopyOp("stg", "stg", "q", "", "", ""),
    CopyOp("stg", "prd", "", "", "", ""),
    CopyOp("dev", "stg", "q", "kv", "", "p"),
    CopyOp("stg", "dev", "q", "", "", "p"),
    CopyOp("stg", "dev", "q", "", "kv", "p") }

\* command lines that end before any document is read
RejectedInvocations ==
  { CopyOp("dev", "dev", "p", "kv", "kv", ""),
    CopyOp("dev", "dev", "q", "", "", ""),
    CopyOp("stg", "stg", "", "", "", ""),
    CopyOp("dev", "stg", "q", "kv", "", "") }

\* the locations a copy invocation names, once its defaults are applied
CopySourceLoc(o) ==
  IF StoreOf(o.sourceEnv) = "vault" THEN <<o.sourceEnv, o.sourceKV, o.sourcePath>>
  ELSE <<o.sourceEnv, o.sourcePath>>
CopyTargetLoc(o) ==
  LET tPath == IF o.targetPath = "" THEN o.sourcePath ELSE o.targetPath
      tKV == IF o.targetKV # "" THEN o.targetKV
             ELSE IF o.sourceKV # "" THEN o.sourceKV ELSE DefaultCrossTargetKV
  IN IF StoreOf(o.targetEnv) = "vault" THEN <<o.targetEnv, tKV, tPath>>
     ELSE <<o.targetEnv, tPath>>

\* the source path looked up in the target environment
CopyShadowLoc(o) ==
  LET sPath == IF StoreOf(o.sourceEnv) = StoreOf(o.targetEnv)
               THEN o.sourcePath ELSE o.secretPath
  IN IF StoreOf(o.targetEnv) = "vault" THEN <<o.targetEnv, CopyTargetLoc(o)[2], sPath>>
     ELSE <<o.targetEnv, sPath>>

Place(store, loc, cell) ==
  IF loc \in DOMAIN store THEN [store EXCEPT ![loc] = cell] ELSE store

\* the source documents: each value of each key once
CopySources ==
  {Absent, ScalarCell(Text(1)), DocCell(EmptyDoc)}
  \cup {DocCell((kId :> Text(i)) @@ (kPwd :> Text(i))) : i \in 1..MaxText}
  \cup {DocCell((kId :> Num(7)) @@ (kPwd :> JsonBlob)),
        DocCell((kId :> Num(1000000)) @@ (kPwd :> Text(1)))}

CopyConfigs == {c \in Configs : Len(c.keys) = 0 => c.redactJSONVals}

CopyTargets ==
  {Absent, ScalarCell(Text(2)), DocCell(EmptyDoc), DocCell(kId :> Text(1)),
   DocCell((kId :> Text(1)) @@ (kPwd :> Text(1)))}

InitCopy ==
  \E o \in CopyInvocations \cup RejectedInvocations, gate \in Gates,
     entry \in {"command", "CopySecret", "CopySecretData", "CopyVaultWithAWS"} :
    LET sl == CopySourceLoc(o)
        tl == CopyTargetLoc(o)
        rl == CopyShadowLoc(o)
        \* a direct call names its source path, its target path and its engine
        args == IF entry # "CopyVaultWithAWS" THEN o
                ELSE [o EXCEPT !.secretPath = o.sourcePath,
                               !.targetPath = tl[Len(tl)],
                               !.targetKV = IF Len(tl) = 3 THEN tl[2] ELSE @]
    IN /\ entry # "command" => gate = Approved /\ o \in CopyInvocations
       /\ entry \in {"CopySecret", "CopySecretData"} =>
            /\ o.targetPath # "" /\ o.sourceEnv = o.targetEnv
            /\ StoreOf(o.targetEnv) = "awssecretsmanager"
       /\ entry = "CopyVaultWithAWS" =>
            "vault" \in {StoreOf(o.sourceEnv), StoreOf(o.targetEnv)}
       /\ \E src \in CopySources, tgt \in CopyTargets,
             shadow \in {Absent, DocCell(kId :> Text(2))} :
            /\ (gate # Approved \/ o \in RejectedInvocations) =>
                 /\ src = DocCell((kId :> Text(1)) @@ (kPwd :> Text(1)))
                 /\ tgt \in {Absent, src} /\ shadow = Absent
            /\ sl = tl => tgt = src
            /\ (rl \in {sl, tl} \/ rl \notin DOMAIN EmptyVault \cup DOMAIN EmptyAws)
                 => shadow = Absent
            /\ Len(sl) = 3 => src.st # "scalar"
            /\ Len(tl) = 3 => tgt.st # "scalar"
            /\ sl \notin DOMAIN EmptyVault \cup DOMAIN EmptyAws => src = Absent
            /\ entry = "CopySecretData" => src.st = "doc"
            /\ vault = Place(Place(Place(EmptyVault, rl, shadow), tl, tgt), sl, src)
            /\ aws = Place(Place(Place(EmptyAws, rl, shadow), tl, tgt), sl, src)
            /\ \E m \in [VaultEnvs -> MountSets] :
                 /\ \A e \in VaultEnvs : e # o.targetEnv => m[e] = {"kv"}
                 /\ mounts = m
                 /\ MountsCover(vault, mounts)
            /\ \E c \in CopyConfigs, options \in CopyOptionSets :
                 /\ (gate # Approved \/ o \in RejectedInvocations) =>
                      c = DefaultCfg /\ options = NoOptions
                 /\ cfg = c
                 /\ op = [args EXCEPT
                            !.options = options, !.dryRun = gate.dryRun,
                            !.autoApprove = gate.autoApprove, !.answer = gate.answer,
                            !.entry = entry,
                            !.given = [targetPath |-> args.targetPath,
                                       targetKV |-> args.targetKV],
                            !.data = IF entry = "CopySecretData" THEN src.d ELSE @,
                            !.pc = CASE entry = "command" -> "start"
                                     [] entry = "CopySecret" -> "aws"
                                     [] entry = "CopySecretData" -> "data"
                                     [] entry = "CopyVaultWithAWS" -> "cross"]
            /\ hist = NewHist(vault, aws, mounts)

NextCopy ==
  \/ CopyStart
  \/ CopyVaultCase
  \/ CopyAwsCase
  \/ CopyDataCase
  \/ CopyVaultWithAWS

SpecCopy == InitCopy /\ [][NextCopy]_vars

(***************************************************************************)
(* the same copy run a second time                                         *)
(***************************************************************************)
\* the call that has ended made again with the arguments as they were given the
\* first time (a new process: the defaults of the first run are not kept); the
\* backends as the first run left them are kept for comparison
CopyAgain ==
  /\ op.kind = "copy" /\ op.pc = "exit"
  /\ ~hist.firstRun.ended
  /\ op' = [op EXCEPT !.pc = CASE op.entry = "command" -> "start"
                               [] op.entry = "CopySecret" -> "aws"
                               [] op.entry = "CopySecretData" -> "data"
                               [] op.entry = "CopyVaultWithAWS" -> "cross",
                       !.targetPath = op.given.targetPath,
                       !.targetKV = op.given.targetKV,
                       !.code = 0, !.msg = ""]
  /\ hist' = [hist EXCEPT !.firstRun = [ended |-> TRUE, code |-> op.code, vault |-> vault,
                                        aws |-> aws, mounts |-> mounts]]
  /\ UNCHANGED <<cfg, mounts, vault, aws>>

NextCopyTwice ==
  \/ NextCopy
  \/ CopyAgain

SpecCopyTwice == InitCopy /\ [][NextCopyTwice]_vars

(***************************************************************************)
(* two copies into one target                                              *)
(***************************************************************************)
\* two CopySecret calls on the client of one environment, from the paths p and r
\* into q, each at its own position: "fetch", "write" or "exit"
InitCopyRace ==
  \E env \in {"dev", "stg"}, c \in CopyConfigs,
     options \in {x \in CopyOptionSets : ~x.Overwrite /\ ~x.OnlyCopyKeys},
     s1 \in CopySources, s2 \in CopySources, tgt \in CopyTargets :
    /\ s1.st = "doc" /\ s2.st = "doc" /\ tgt.st # "scalar"
    /\ op = [kind |-> "copyrace", env |-> env, kvEngine |-> "kv", targetPath |-> "q",
             options |-> options,
             inv |-> [i \in {"p", "r"} |->
                        [pc |-> "fetch", sourcePath |-> i, targetExists |-> FALSE,
                         resultData |-> EmptyDoc, code |-> 0]]]
    /\ cfg = c
    /\ mounts = [e \in VaultEnvs |-> {"kv"}]
    /\ vault = Place(Place(Place(EmptyVault, <<env, "kv", "q">>, tgt),
                           <<env, "kv", "p">>, s1), <<env, "kv", "r">>, s2)
    /\ aws = Place(Place(Place(EmptyAws, <<env, "q">>, tgt), <<env, "p">>, s1),
                   <<env, "r">>, s2)
    /\ hist = NewHist(vault, aws, mounts)

\* CopySecret up to its write: both fetches and the loop over the source keys
RaceCopyFetch ==
  /\ op.kind = "copyrace"
  /\ \E i \in DOMAIN op.inv :
       /\ op.inv[i].pc = "fetch"
       /\ LET isVault == StoreOf(op.env) = "vault"
              vs == VaultGetSecret(op.env, op.kvEngine, op.inv[i].sourcePath, "none")
              vt == VaultGetSecret(op.env, op.kvEngine, op.targetPath, "none")
              as == AwsGetSecret(op.env, op.inv[i].sourcePath, "none")
              at == AwsGetSecret(op.env, op.targetPath, "none")
              targetExists == IF isVault THEN ~vt.err.is ELSE ~at.err.is
              resultData ==
                IF isVault
                THEN VaultMerge(cfg, op.options,
                                IF targetExists THEN vt.data ELSE EmptyDoc, vs.data)
                ELSE AwsMerge(cfg, op.options,
                              AwsStart(op.options, targetExists, TRUE, at.data), as.data)
          IN op' = [op EXCEPT !.inv[i] = [@ EXCEPT !.pc = "write",
                                                  !.targetExists = targetExists,
                                                  !.resultData = resultData]]
  /\ UNCHANGED <<cfg, mounts, vault, aws, hist>>

\* CopySecret's one write: Put in Vault; UpdateSecret or CreateSecret, by what the
\* fetch saw, in the flat store
RaceCopyWrite ==
  /\ op.kind = "copyrace"
  /\ \E i \in DOMAIN op.inv :
       /\ op.inv[i].pc = "write"
       /\ LET isVault == StoreOf(op.env) = "vault"
              v == VaultPut(op.env, op.kvEngine, op.targetPath, op.inv[i].resultData, "none")
              a == AwsPutSecret(op.env, op.targetPath, op.inv[i].targetExists,
                                DocCell(op.inv[i].resultData), "none")
              ok == IF isVault THEN v.ok ELSE a.ok
          IN /\ vault' = IF isVault THEN v.vault ELSE vault
             /\ aws' = IF isVault THEN aws ELSE a.aws
             /\ op' = [op EXCEPT !.inv[i] = [@ EXCEPT !.pc = "exit",
                                                      !.code = IF ok THEN 0 ELSE 1]]
             /\ hist' = [hist EXCEPT !.docWrites = @ + IF ok THEN 1 ELSE 0]
  /\ UNCHANGED <<cfg, mounts>>

NextCopyRace ==
  \/ RaceCopyFetch
  \/ RaceCopyWrite

SpecCopyRace == InitCopyRace /\ [][NextCopyRace]_vars

(***************************************************************************)
(* compare                                                                 *)
(***************************************************************************)
\* vault Client.TryParseAndRedactJSON: the string the caller goes on with
VaultTryParseAndRedactJSON(c, v) ==
  IF ~ShouldRedactJSONValues(c) \/ ~VaultIsJSONValue(v) \/ ~UnmarshalOK(v) THEN v
  ELSE LET data == Unmarshal(v)
           redactedData == VaultRedactJSONValues(c, data)
       IN IF redactedData = data THEN v ELSE MarshalIndent(redactedData)

\* comparison.tryParseAndRedactJSON: the string the caller goes on with
tryParseAndRedactJSON(c, v) ==
  IF ~UnmarshalOK(v) THEN v ELSE MarshalIndent(redactJSONValues(c, Unmarshal(v)))

kInfo == <<"I", "N", "F", "O">>
kError == <<"E", "R", "R", "O", "R">>
Info == [t |-> "info", s |-> 0, f |-> "-", o |-> <<>>]
NoDiff == <<>>

\* GenerateDiff / generateDiff: a text made of both strings
GenerateDiff(current, target) == <<current, target>>

DiffItem(key, current, target, redacted, status) ==
  [Key |-> key, Current |-> current, Target |-> target,
   Diff |-> IF status = "*" /\ ~redacted THEN GenerateDiff(current, target) ELSE NoDiff,
   IsRedacted |-> redacted, Status |-> status]

\* CompareVaultInstances: comparison.Diffs from the two fetched documents
VaultInstanceDiffs(c, sourceExists, sData, targetExists, tData) ==
  LET S == IF sourceExists THEN DOMAIN sData ELSE {}
      T == IF targetExists THEN DOMAIN tData ELSE {}
      shown(v) == VaultTryParseAndRedactJSON(c, Sprint(v))
  IN (IF ~sourceExists THEN {DiffItem(kInfo, Info, EmptyString, FALSE, "-")}
      ELSE IF ~targetExists THEN {DiffItem(kInfo, EmptyString, Info, FALSE, "+")}
      ELSE {})
     \cup {DiffItem(k, shown(sData[k]), EmptyString, VaultIsRedactedKey(c, k), "+")
             : k \in S \ T}
     \cup {DiffItem(k, EmptyString, shown(tData[k]), VaultIsRedactedKey(c, k), "-")
             : k \in T \ S}
     \cup {DiffItem(k, shown(sData[k]), shown(tData[k]), VaultIsRedactedKey(c, k), "*")
             : k \in {x \in S \cap T : shown(sData[x]) # shown(tData[x])}}

\* CompareVaultWithAWS: comparison.Diffs from the two fetched documents
CrossStoreDiffs(c, sourceExists, sData, targetExists, tData) ==
  LET S == IF sourceExists THEN DOMAIN sData ELSE {}
      T == IF targetExists THEN DOMAIN tData ELSE {}
      shown(v) == IF ShouldRedactJSONValues(c) THEN tryParseAndRedactJSON(c, Sprint(v))
                  ELSE Sprint(v)
  IN (IF ~sourceExists THEN {DiffItem(kInfo, Info, EmptyString, FALSE, "-")}
      ELSE IF ~targetExists THEN {DiffItem(kInfo, EmptyString, Info, FALSE, "+")}
      ELSE {})
     \cup {DiffItem(k, shown(sData[k]), EmptyString, shouldRedact(c, k), "+")
             : k \in S \ T}
     \cup {DiffItem(k, EmptyString, shown(tData[k]), shouldRedact(c, k), "-")
             : k \in T \ S}
     \cup {DiffItem(k, shown(sData[k]), shown(tData[k]), shouldRedact(c, k), "*")
             : k \in {x \in S \cap T : shown(sData[x]) # shown(tData[x])}}

\* the loop over comparison.Diffs in a compare command's RunE: the value lines it
\* writes, each with the entry it was written for. An entry whose key is one of
\* noteKeys has its non-empty sides written as they are and the loop continues;
\* any other entry has the fixed text "(redacted)" written in place of a side when
\* it is flagged (a fixed text is the value Info)
RunEPrinted(o, noteKeys) ==
  LET raw(e) == e.Key \in noteKeys \/ ~e.IsRedacted
      side(e, v) == IF v = EmptyString THEN {}
                    ELSE {[entry |-> e, text |-> IF raw(e) THEN v ELSE Info]}
  IN [o EXCEPT !.printed =
        UNION {side(e, e.Current) \cup side(e, e.Target) : e \in o.diffs}]

\* the return of a comparison: its error, or its result. The instance
\* comparisons list a missing target under the source's path (configPath), the
\* cross-store comparison under the target's
CompareReturn(o, sErr, tErr, sJSON, tJSON, diffs) ==
  IF sErr.is /\ ~sErr.secretNotFound THEN Exit(o, 1, "source-fetch-failed")
  ELSE IF ~sErr.is /\ ~sJSON THEN Exit(o, 1, "non-json-source")
  ELSE IF tErr.is /\ ~tErr.secretNotFound THEN Exit(o, 1, "target-fetch-failed")
  ELSE IF ~tErr.is /\ ~tJSON THEN Exit(o, 1, "non-json-target")
  ELSE IF sErr.is /\ tErr.is THEN Exit(o, 1, "neither-exists")
  ELSE [Exit(o, 0, "compared") EXCEPT
          !.diffs = diffs,
          !.missingInSource = IF sErr.is THEN {o.sourcePath} ELSE {},
          !.missingInTarget = IF ~tErr.is THEN {}
                              ELSE IF o.fn = "cross-store" THEN {o.targetPath}
                              ELSE {o.sourcePath}]

\* vault.CompareVaultInstances
CompareVaultInstances ==
  /\ op.kind = "compare" /\ op.fn = "vault-instances" /\ op.pc = "start"
  /\ \E fs \in VaultFaults, ft \in VaultFaults :
       /\ MayFail(FaultCount(fs) + FaultCount(ft))
       /\ LET o == [op EXCEPT
                      !.targetEnv = IF @ = "" THEN op.sourceEnv ELSE @,
                      !.targetKV = IF @ = "" THEN op.sourceKV ELSE @,
                      !.targetPath = IF @ = "" THEN op.sourcePath ELSE @]
              sourceConfig == GetEnvironmentConfig(Environments, o.sourceEnv)
              targetConfig == GetEnvironmentConfig(Environments, o.targetEnv)
              s == VaultGetSecret(o.sourceEnv, o.sourceKV, o.sourcePath, fs)
              t == VaultGetSecret(o.targetEnv, o.targetKV, o.targetPath, ft)
          IN /\ (sourceConfig.err # "" \/ targetConfig.err # "") => (fs = "none" /\ ft = "none")
             /\ op' = IF sourceConfig.err # "" THEN Exit(o, 1, sourceConfig.err)
                      ELSE IF targetConfig.err # "" THEN Exit(o, 1, targetConfig.err)
                      ELSE RunEPrinted(CompareReturn(o, s.err, t.err, TRUE, TRUE,
                             VaultInstanceDiffs(cfg, ~s.err.is, s.data, ~t.err.is, t.data)),
                             {kInfo})
       /\ hist' = [hist EXCEPT !.faults = @ + FaultCount(fs) + FaultCount(ft),
                            !.fetchFaults = @ + FaultCount(fs) + FaultCount(ft)]
  /\ UNCHANGED <<cfg, mounts, vault, aws>>

\* comparison.CompareVaultWithAWS: the Vault side is read under the source engine
CompareVaultWithAWS ==
  /\ op.kind = "compare" /\ op.fn = "cross-store" /\ op.pc = "start"
  /\ \E fv \in VaultFaults, fa \in AwsFaults :
       /\ MayFail(FaultCount(fv) + FaultCount(fa))
       /\ LET sVault == StoreOf(op.sourceEnv) = "vault"
              v == VaultGetSecret(IF sVault THEN op.sourceEnv ELSE op.targetEnv, op.sourceKV,
                                  IF sVault THEN op.sourcePath ELSE op.targetPath, fv)
              a == AwsGetSecret(IF sVault THEN op.targetEnv ELSE op.sourceEnv,
                                IF sVault THEN op.targetPath ELSE op.sourcePath, fa)
              sErr == IF sVault THEN v.err ELSE a.err
              tErr == IF sVault THEN a.err ELSE v.err
              sData == IF sVault THEN v.data ELSE a.data
              tData == IF sVault THEN a.data ELSE v.data
              sourceConfig == GetEnvironmentConfig(Environments, op.sourceEnv)
              targetConfig == GetEnvironmentConfig(Environments, op.targetEnv)
          IN /\ (sourceConfig.err # "" \/ targetConfig.err # "") => (fv = "none" /\ fa = "none")
             /\ op' =
                   IF sourceConfig.err # "" THEN Exit(op, 1, sourceConfig.err)
                   ELSE IF targetConfig.err # "" THEN Exit(op, 1, targetConfig.err)
                   ELSE IF StoreOf(op.sourceEnv) = StoreOf(op.targetEnv)
                   THEN Exit(op, 1, "not-cross-store")
                   ELSE RunEPrinted(
                          CompareReturn(op, sErr, tErr, sVault \/ a.isJSON, ~sVault \/ a.isJSON,
                            CrossStoreDiffs(cfg, ~sErr.is, sData, ~tErr.is, tData)),
                          {kInfo, kError})
       /\ hist' = [hist EXCEPT !.faults = @ + FaultCount(fv) + FaultCount(fa),
                            !.fetchFaults = @ + FaultCount(fv) + FaultCount(fa)]
  /\ UNCHANGED <<cfg, mounts, vault, aws>>

(***************************************************************************)
(* compare: two paths of one instance, and two flat-store instances        *)
(***************************************************************************)
\* awssecretsmanager Client.TryParseAndRedactJSON: the string the caller goes on with
AwsTryParseAndRedactJSON(c, v) ==
  IF ~AwsIsJSONValue(v) \/ ~UnmarshalOK(v) THEN v
  ELSE LET data == Unmarshal(v)
           redactedData == AwsRedactJSONValues(c, data)
       IN IF redactedData = data THEN v ELSE MarshalIndent(redactedData)

\* an entry that carries a message: its diff text is never generated
NoteItem(key, status) ==
  [Key |-> key, Current |-> Info, Target |-> Info, Diff |-> NoDiff,
   IsRedacted |-> FALSE, Status |-> status]

\* the comparison of two bare flat-store secrets: one entry under "value"
BareSecretDiffs(c, sData, tData) ==
  IF Sprint(sData[kValue]) = Sprint(tData[kValue]) THEN {}
  ELSE {DiffItem(kValue, Sprint(sData[kValue]), Sprint(tData[kValue]),
                 ShouldRedactSecrets(c), "*")}

\* vault Client.CompareSecretPaths: comparison.Diffs from the two documents
VaultPathDiffs(c, sData, tData) ==
  LET S == DOMAIN sData
      T == DOMAIN tData
      shown(k, v) == IF VaultIsRedactedKey(c, k) /\ ShouldRedactJSONValues(c)
                     THEN VaultTryParseAndRedactJSON(c, Sprint(v)) ELSE Sprint(v)
  IN {DiffItem(k, shown(k, sData[k]), EmptyString, VaultIsRedactedKey(c, k), "+")
        : k \in S \ T}
     \cup {DiffItem(k, EmptyString, shown(k, tData[k]), VaultIsRedactedKey(c, k), "-")
             : k \in T \ S}
     \cup {DiffItem(k, shown(k, sData[k]), shown(k, tData[k]), VaultIsRedactedKey(c, k), "*")
             : k \in {x \in S \cap T : Sprint(sData[x]) # Sprint(tData[x])}}

\* awssecretsmanager Client.CompareSecretPaths: comparison.Diffs, both documents
\* being JSON or both bare
AwsPathDiffs(c, isJSON, sData, tData) ==
  LET S == DOMAIN sData
      T == DOMAIN tData
      shown(v) == IF ShouldRedactJSONValues(c)
                  THEN AwsTryParseAndRedactJSON(c, Sprint(v)) ELSE Sprint(v)
  IN IF ~isJSON THEN BareSecretDiffs(c, sData, tData)
     ELSE {DiffItem(k, shown(sData[k]), EmptyString, AwsIsRedactedKey(c, k), "+")
             : k \in S \ T}
          \cup {DiffItem(k, EmptyString, shown(tData[k]), AwsIsRedactedKey(c, k), "-")
                  : k \in T \ S}
          \cup {DiffItem(k, shown(sData[k]), shown(tData[k]), AwsIsRedactedKey(c, k), "*")
                  : k \in {x \in S \cap T : Sprint(sData[x]) # Sprint(tData[x])}}

\* CompareAWSSecretInstances: comparison.Diffs from the two fetched secrets
AwsInstanceDiffs(c, sourceExists, sJSON, sData, targetExists, tJSON, tData) ==
  LET S == IF sourceExists THEN DOMAIN sData ELSE {}
      T == IF targetExists THEN DOMAIN tData ELSE {}
      shown(v) == IF ShouldRedactJSONValues(c)
                  THEN AwsTryParseAndRedactJSON(c, Sprint(v)) ELSE Sprint(v)
  IN IF ~sourceExists
     THEN {DiffItem(kInfo, Info, EmptyString, FALSE, "-")}
          \cup {DiffItem(k, EmptyString, shown(tData[k]), AwsIsRedactedKey(c, k), "-")
                  : k \in T}
     ELSE IF ~targetExists
     THEN {DiffItem(kInfo, EmptyString, Info, FALSE, "+")}
          \cup {DiffItem(k, shown(sData[k]), EmptyString, AwsIsRedactedKey(c, k), "+")
                  : k \in S}
     ELSE IF sJSON # tJSON THEN {NoteItem(kInfo, "*"), NoteItem(kError, "*")}
     ELSE IF ~sJSON THEN BareSecretDiffs(c, sData, tData)
     ELSE {DiffItem(k, shown(sData[k]), EmptyString, AwsIsRedactedKey(c, k), "+")
             : k \in S \ T}
          \cup {DiffItem(k, EmptyString, shown(tData[k]), AwsIsRedactedKey(c, k), "-")
                  : k \in T \ S}
          \cup {DiffItem(k, shown(sData[k]), shown(tData[k]), AwsIsRedactedKey(c, k), "*")
                  : k \in {x \in S \cap T : shown(sData[x]) # shown(tData[x])}}

\* vault Client.CompareSecretPaths on the client of (sourceEnv, sourceKV)
VaultCompareSecretPaths ==
  /\ op.kind = "compare" /\ op.fn = "vault-paths" /\ op.pc = "start"
  /\ \E fs \in VaultFaults, ft \in VaultFaults :
       /\ MayFail(FaultCount(fs) + FaultCount(ft))
       /\ LET s == VaultGetSecret(op.sourceEnv, op.sourceKV, op.sourcePath, fs)
              t == VaultGetSecret(op.sourceEnv, op.sourceKV, op.targetPath, ft)
          IN op' = IF s.err.is THEN Exit(op, 1, "source-fetch-failed")
                   ELSE IF t.err.is THEN Exit(op, 1, "target-fetch-failed")
                   ELSE RunEPrinted([Exit(op, 0, "compared") EXCEPT
                           !.diffs = VaultPathDiffs(cfg, s.data, t.data)], {})
       /\ hist' = [hist EXCEPT !.faults = @ + FaultCount(fs) + FaultCount(ft),
                            !.fetchFaults = @ + FaultCount(fs) + FaultCount(ft)]
  /\ UNCHANGED <<cfg, mounts, vault, aws>>

\* awssecretsmanager Client.CompareSecretPaths on a flat-store client of sourceEnv,
\* as a program importing the package calls it (no command builds such a client)
AwsCompareSecretPaths ==
  /\ op.kind = "compare" /\ op.fn = "aws-paths" /\ op.pc = "start"
  /\ \E fs \in AwsFaults, ft \in AwsFaults :
       /\ MayFail(FaultCount(fs) + FaultCount(ft))
       /\ LET s == AwsGetSecret(op.sourceEnv, op.sourcePath, fs)
              t == AwsGetSecret(op.sourceEnv, op.targetPath, ft)
          IN op' = IF s.err.is THEN Exit(op, 1, "source-fetch-failed")
                   ELSE IF t.err.is THEN Exit(op, 1, "target-fetch-failed")
                   ELSE IF s.isJSON # t.isJSON THEN Exit(op, 1, "incompatible")
                   ELSE [Exit(op, 0, "compared") EXCEPT
                           !.diffs = AwsPathDiffs(cfg, s.isJSON, s.data, t.data)]
       /\ hist' = [hist EXCEPT !.faults = @ + FaultCount(fs) + FaultCount(ft),
                            !.fetchFaults = @ + FaultCount(fs) + FaultCount(ft)]
  /\ UNCHANGED <<cfg, mounts, vault, aws>>

\* awssecretsmanager.CompareAWSSecretInstances
CompareAWSSecretInstances ==
  /\ op.kind = "compare" /\ op.fn = "aws-instances" /\ op.pc = "start"
  /\ \E fs \in AwsFaults, ft \in AwsFaults :
       /\ MayFail(FaultCount(fs) + FaultCount(ft))
       /\ LET o == [op EXCEPT
                      !.targetEnv = IF @ = "" THEN op.sourceEnv ELSE @,
                      !.targetPath = IF @ = "" THEN op.sourcePath ELSE @]
              s == AwsGetSecret(o.sourceEnv, o.sourcePath, fs)
              t == AwsGetSecret(o.targetEnv, o.targetPath, ft)
              sourceConfig == GetEnvironmentConfig(Environments, o.sourceEnv)
              targetConfig == GetEnvironmentConfig(Environments, o.targetEnv)
          IN /\ (sourceConfig.err # "" \/ targetConfig.err # "") => (fs = "none" /\ ft = "none")
             /\ op' =
                   IF sourceConfig.err # "" THEN Exit(o, 1, sourceConfig.err)
                   ELSE IF targetConfig.err # "" THEN Exit(o, 1, targetConfig.err)
                   ELSE IF StoreOf(o.sourceEnv) # "awssecretsmanager"
                      \/ StoreOf(o.targetEnv) # "awssecretsmanager"
                   THEN Exit(o, 1, "not-flat-store")
                   ELSE RunEPrinted(
                          CompareReturn(o, s.err, t.err, TRUE, TRUE,
                            AwsInstanceDiffs(cfg, ~s.err.is, s.isJSON, s.data,
                                             ~t.err.is, t.isJSON, t.data)),
                          {kInfo, kError})
       /\ hist' = [hist EXCEPT !.faults = @ + FaultCount(fs) + FaultCount(ft),
                            !.fetchFaults = @ + FaultCount(fs) + FaultCount(ft)]
  /\ UNCHANGED <<cfg, mounts, vault, aws>>

(***************************************************************************)
(* compare: initial states                                                 *)
(***************************************************************************)
CompareOp(fn, sEnv, tEnv, tPath, sKV, tKV) ==
  [kind |-> "compare", fn |-> fn, pc |-> "start",
   sourceEnv |-> sEnv, targetEnv |-> tEnv, sourcePath |-> "p", targetPath |-> tPath,
   sourceKV |-> sKV, targetKV |-> tKV,
   diffs |-> {}, missingInSource |-> {}, missingInTarget |-> {}, printed |-> {},
   code |-> 0, msg |-> ""]

CompareInvocations ==
  { CompareOp("vault-instances", "dev", "uat", "", "kv", ""),
    CompareOp("vault-instances", "dev", "", "q", "kv", "secret"),
    CompareOp("cross-store", "dev", "stg", "p", "kv", ""),
    CompareOp("cross-store", "stg", "dev", "q", "kv", ""),
    CompareOp("cross-store", "stg", "prd", "p", "", ""),
    CompareOp("vault-paths", "dev", "", "q", "kv", ""),
    CompareOp("aws-paths", "stg", "", "q", "", ""),
    CompareOp("aws-instances", "stg", "prd", "", "", ""),
    CompareOp("aws-instances", "stg", "", "q", "", ""),
    CompareOp("aws-instances", "stg", "dev", "q", "", ""),
    CompareOp("aws-instances", "dev", "uat", "q", "kv", "") }

CompareSourceLoc(o) ==
  IF StoreOf(o.sourceEnv) = "vault" THEN <<o.sourceEnv, o.sourceKV, o.sourcePath>>
  ELSE <<o.sourceEnv, o.sourcePath>>
CompareTargetLoc(o) ==
  LET tEnv == IF o.targetEnv = "" THEN o.sourceEnv ELSE o.targetEnv
      tKV == IF o.targetKV = "" THEN o.sourceKV ELSE o.targetKV
      tPath == IF o.targetPath = "" THEN o.sourcePath ELSE o.targetPath
  IN IF StoreOf(tEnv) = "vault" THEN <<tEnv, tKV, tPath>> ELSE <<tEnv, tPath>>

\* JSON-valued strings that differ from JsonBlob in a nested secret, in a nested
\* plain field, and in their layout alone; the documents compared also hold a
\* number of seven digits, and one document has keys named INFO and ERROR
JsonBlobSecret == Json("x", (nPass :> "n3") @@ (nUser :> "n2"))
JsonBlobUser == Json("x", (nPass :> "n1") @@ (nUser :> "n4"))
JsonBlobCompact == Json("c", (nPass :> "n1") @@ (nUser :> "n2"))

CompareCells ==
  DocCells
  \cup {DocCell((kId :> Text(1)) @@ (kPwd :> b))
          : b \in {JsonBlobSecret, JsonBlobUser, JsonBlobCompact}}
  \cup {DocCell(kId :> b) : b \in {JsonBlob, JsonBlobSecret, Num(1000000)}}
  \cup {DocCell((kInfo :> Text(1)) @@ (kError :> Text(2)))}
  \cup {Absent} \cup {ScalarCell(Text(i)) : i \in 1..MaxText}

\* the policies of the comparisons: one more names the pattern "info", which
\* matches a document key named INFO
CompareConfigs ==
  Configs \cup {[redactSecrets |-> TRUE, redactJSONVals |-> FALSE,
                 keys |-> << <<"i", "n", "f", "o">> >>]}

InitCompare ==
  \E o \in CompareInvocations, c \in CompareConfigs, src \in CompareCells, tgt \in CompareCells :
    LET sl == CompareSourceLoc(o)
        tl == CompareTargetLoc(o)
    IN /\ Len(sl) = 3 => src.st # "scalar"
       /\ Len(tl) = 3 => tgt.st # "scalar"
       /\ op = o
       /\ cfg = c
       /\ mounts = [e \in VaultEnvs |-> {"kv", "secret"}]
       /\ vault = Place(Place(EmptyVault, tl, tgt), sl, src)
       /\ aws = Place(Place(EmptyAws, tl, tgt), sl, src)
       /\ hist = NewHist(vault, aws, mounts)

NextCompare ==
  \/ CompareVaultInstances
  \/ CompareVaultWithAWS
  \/ VaultCompareSecretPaths
  \/ AwsCompareSecretPaths
  \/ CompareAWSSecretInstances

SpecCompare == InitCompare /\ [][NextCompare]_vars

(***************************************************************************)
(* the operations between the two stores, copy and comparison              *)
(***************************************************************************)
SpecCrossStore ==
  /\ \/ InitCopy /\ StoreOf(op.sourceEnv) # StoreOf(op.targetEnv)
     \/ InitCompare /\ op.fn = "cross-store"
  /\ [][CopyStart \/ CopyVaultWithAWS \/ CompareVaultWithAWS]_vars

(***************************************************************************)
(* the commands that write: copy and split invocations together            *)
(***************************************************************************)
InitWrite == InitCopy \/ InitSplit

NextWrite == NextCopy \/ NextSplit

SpecWrite == InitWrite /\ [][NextWrite]_vars

(***************************************************************************)
(* configuration: the lookup of one environment                            *)
(***************************************************************************)
\* the call of GetEnvironmentConfig by a command
ConfigLookup ==
  /\ op.kind = "config" /\ op.pc = "start"
  /\ LET r == GetEnvironmentConfig(op.environments, op.env)
     IN op' = [Exit(op, IF r.err = "" THEN 0 ELSE 1, r.err) EXCEPT !.config = r.config]
  /\ UNCHANGED <<cfg, mounts, vault, aws, hist>>

EnvironmentConfigs ==
  {EnvironmentConfig(u, t, st) :
     u \in {"", "https://dev"}, t \in {"", "VAULT_DEV_TOKEN"},
     st \in {"", "vault", "awssecretsmanager", "unsupported"}}

\* the Environments maps: one or two of the names dev and stg are defined
EnvironmentMaps ==
  UNION {[names -> EnvironmentConfigs] : names \in {{"dev"}, {"stg"}, {"dev", "stg"}}}

InitConfig ==
  \E envs \in EnvironmentMaps, env \in {"dev", "stg"} :
    /\ op = [kind |-> "config", pc |-> "start", environments |-> envs, env |-> env,
              config |-> NoEnvironment, code |-> 0, msg |-> ""]
    /\ cfg = DefaultCfg
    /\ mounts = [e \in VaultEnvs |-> {"kv"}]
    /\ vault = EmptyVault
    /\ aws = EmptyAws
    /\ hist = NewHist(vault, aws, mounts)

NextConfig == ConfigLookup

SpecConfig == InitConfig /\ [][NextConfig]_vars

(***************************************************************************)
(* what the properties observe                                             *)
(***************************************************************************)
CellIn(v, a, loc) ==
  IF loc \in DOMAIN v THEN v[loc] ELSE IF loc \in DOMAIN a THEN a[loc] ELSE Absent
CellNow(loc) == CellIn(vault, aws, loc)
Cell0(loc) == CellIn(hist.vault0, hist.aws0, loc)
HoldsPair(cell, k, v) == cell.st = "doc" /\ k \in DOMAIN cell.d /\ cell.d[k] = v
KeysOfCell(cell) == IF cell.st = "doc" THEN DOMAIN cell.d ELSE {}
StoresUntouched == vault = hist.vault0 /\ aws = hist.aws0 /\ mounts = hist.mounts0

\* the keys of the pre-split source document that match a sensitive pattern
SplitSensitiveKeys0 ==
  {k \in KeysOfCell(Cell0(SplitSourceLoc(op))) : SplitIsSensitive(k, GetSensitiveKeys(cfg))}

(***************************************************************************)
(* split: properties                                                       *)
(***************************************************************************)
\* C1: in every state during or after a Split, failed writes included, each
\* sensitive key-value pair of the pre-split source document is present with its
\* raw value in the source location or in the target location the invocation
\* names.
C1_SplitNeverLosesSensitiveData ==
  op.kind = "split" =>
    \A k \in SplitSensitiveKeys0 :
      LET v == Cell0(SplitSourceLoc(op)).d[k]
      IN \/ HoldsPair(CellNow(SplitSourceLoc(op)), k, v)
         \/ HoldsPair(CellNow(SplitTargetLoc(op)), k, v)

\* C3: after a successful Split the key sets stored at the source and at the
\* target the invocation names are disjoint, their union is the key set of the
\* pre-split source, and the target holds exactly the keys that matched a
\* sensitive pattern.
C3_SplitPartition ==
  (op.kind = "split" /\ op.pc = "exit" /\ op.msg = "split") =>
    LET s == KeysOfCell(CellNow(SplitSourceLoc(op)))
        t == KeysOfCell(CellNow(SplitTargetLoc(op)))
    IN /\ s \cap t = {}
       /\ s \cup t = KeysOfCell(Cell0(SplitSourceLoc(op)))
       /\ t = SplitSensitiveKeys0

\* C8: when the target location already exists, Split fails and writes nothing
\* to either backend, the creation of an engine or mount included.
C8_SplitExistingTargetNoWrites ==
  (op.kind = "split" /\ Cell0(SplitTargetLoc(op)).st # "none") =>
    /\ StoresUntouched
    /\ hist.mountWrites = 0 /\ hist.docWrites = 0
    /\ op.pc = "exit" => op.code # 0

\* C9: Split writes the source only after the write of the target succeeded, and
\* when the write of the target fails the source is left as it was.
C9_SplitOrdered ==
  op.kind = "split" =>
    /\ (hist.sourceWritten \/ CellNow(SplitSourceLoc(op)) # Cell0(SplitSourceLoc(op)))
         => /\ hist.targetWritten
            /\ CellNow(SplitUsedTargetLoc(op)).st = "doc"
    /\ (op.pc = "wrsrc" \/ op.msg \in {"split", "source-update-failed"})
         => hist.targetWritten
    /\ op.msg = "target-write-failed"
         => /\ ~hist.sourceWritten
            /\ CellNow(SplitSourceLoc(op)) = Cell0(SplitSourceLoc(op))

\* a split that ran to its end: the source was rewritten after the target
C9_Witness ==
  /\ op.kind = "split" /\ op.pc = "exit" /\ op.msg = "split"
  /\ hist.targetWritten /\ hist.sourceWritten
  /\ CellNow(SplitSourceLoc(op)) # Cell0(SplitSourceLoc(op))

(***************************************************************************)
(* copy: properties                                                        *)
(***************************************************************************)
CopySucceeded == op.kind = "copy" /\ op.pc = "exit" /\ op.code = 0 /\ op.msg = "copied"

\* the documents before the copy at the locations the command line names, and
\* the document at the target afterwards
CopySource0 == Cell0(CopySourceLoc(op))
CopyTarget0 == Cell0(CopyTargetLoc(op))
CopyTargetNow == CellNow(CopyTargetLoc(op))

\* the key matches a configured sensitive pattern
IsSensitive(k) == MatchesAny(k, GetRedactedKeys(cfg))

\* the inclusion filter of the copy contract
PassesFilter(k, options) ==
  \/ options.CopySecrets = options.CopyConfig
  \/ options.CopySecrets /\ IsSensitive(k)
  \/ options.CopyConfig /\ ~IsSensitive(k)

\* C2: after a successful Copy with Overwrite unset, every key the target held
\* before keeps its value, and every key held only by the source that passes the
\* inclusion filter is in the target afterwards.
C2_CopyMergeInvariant ==
  (CopySucceeded /\ ~op.options.Overwrite) =>
    /\ \A k \in KeysOfCell(CopyTarget0) :
         HoldsPair(CopyTargetNow, k, CopyTarget0.d[k])
    /\ \A k \in KeysOfCell(CopySource0) \ KeysOfCell(CopyTarget0) :
         PassesFilter(k, op.options) => k \in KeysOfCell(CopyTargetNow)

\* C5: a successful Copy read the document stored at the source location: that
\* document exists, and every key the copy added to the target is one of its keys.
C5_CopyReadsSourceLocation ==
  CopySucceeded =>
    /\ CopySource0.st # "none"
    /\ CopySource0.st = "doc" =>
         KeysOfCell(CopyTargetNow) \ KeysOfCell(CopyTarget0) \subseteq KeysOfCell(CopySource0)

\* two values are one value, up to the text form of a number and the layout of JSON
Canon(v) == IF v.t = "json" THEN Json("c", v.o) ELSE Sprint(v)
SameValue(a, b) == Canon(a) = Canon(b)

\* C6: with KeysOnly unset, the value a successful Copy stores for a key is the
\* value the source holds for it, whatever the redaction settings; a bare
\* flat-store secret is stored as it is.
C6_RedactionIsDisplayOnly ==
  (CopySucceeded /\ ~op.options.OnlyCopyKeys) =>
    /\ \A k \in KeysOfCell(CopyTargetNow) \cap KeysOfCell(CopySource0) :
         \/ SameValue(CopyTargetNow.d[k], CopySource0.d[k])
         \/ HoldsPair(CopyTarget0, k, CopyTargetNow.d[k])
    /\ (CopySource0.st = "scalar" /\ CopyTargetNow.st = "scalar")
         => SameValue(CopyTargetNow.sc, CopySource0.sc)

\* C7: when source and target resolve to one environment, path and engine, Copy
\* fails and writes nothing.
C7_CopyOntoItselfRejected ==
  (op.kind = "copy" /\ CopySourceLoc(op) = CopyTargetLoc(op)) =>
    /\ StoresUntouched
    /\ hist.docWrites = 0 /\ hist.mountWrites = 0
    /\ (op.pc = "exit" /\ ~op.dryRun /\ (op.autoApprove \/ promptForConfirmation(op.answer)))
         => op.code # 0

\* C10: with neither CopySecretsOnly nor CopyConfigOnly set, a successful Copy
\* into an absent or empty target stores every key of the source document.
C10_DefaultCopiesEverything ==
  (/\ CopySucceeded
   /\ ~op.options.CopySecrets /\ ~op.options.CopyConfig
   /\ KeysOfCell(CopyTarget0) = {} /\ CopyTarget0.st # "scalar"
   /\ CopySource0.st = "doc")
    => KeysOfCell(CopySource0) \subseteq KeysOfCell(CopyTargetNow)

(***************************************************************************)
(* compare: properties                                                     *)
(***************************************************************************)
Compared == op.kind = "compare" /\ op.pc = "exit" /\ op.code = 0

\* the raw values the two compared documents hold for a key
RawValues(k) ==
  {Sprint(c.d[k]) : c \in {x \in {Cell0(CompareSourceLoc(op)), Cell0(CompareTargetLoc(op))} :
                            k \in KeysOfCell(x)}}

\* the entries of the result for keys that match a sensitive pattern
SensitiveDiffs == {e \in op.diffs : e.Key # kInfo /\ IsSensitive(e.Key)}

\* C4: with redactAllSecrets set, no entry a comparison returns for a key
\* matching a sensitive pattern carries the raw value of that key in its source
\* or target field.
C4_NoRawValueInResult ==
  (Compared /\ ShouldRedactSecrets(cfg)) =>
    \A e \in SensitiveDiffs :
      e.Current \notin RawValues(e.Key) /\ e.Target \notin RawValues(e.Key)

(***************************************************************************)
(* copy: the filter and the keys-only option                               *)
(***************************************************************************)
\* the key is held by both cells with one value, or by neither
SameEntry(a, b, k) ==
  /\ k \in KeysOfCell(a) <=> k \in KeysOfCell(b)
  /\ k \in KeysOfCell(a) => a.d[k] = b.d[k]

\* C11: with only CopyConfigOnly set, a successful Copy creates no sensitive key
\* in the target and changes the value of no sensitive key the target held, with
\* Overwrite set or unset.
C11_ConfigOnlyLeavesSensitiveKeys ==
  (CopySucceeded /\ op.options.CopyConfig /\ ~op.options.CopySecrets) =>
    \A k \in Keys : IsSensitive(k) => SameEntry(CopyTargetNow, CopyTarget0, k)

\* C12: with only CopySecretsOnly set, a successful Copy into an absent target
\* stores exactly the source keys that match a sensitive pattern, on both
\* backends and for either value of redactAllSecrets.
C12_SecretsOnlyStoresSensitiveKeys ==
  (/\ CopySucceeded
   /\ op.options.CopySecrets /\ ~op.options.CopyConfig
   /\ CopyTarget0.st = "none" /\ CopySource0.st = "doc")
    => KeysOfCell(CopyTargetNow) = {k \in KeysOfCell(CopySource0) : IsSensitive(k)}

\* C13: with KeysOnly set, every key a successful Copy writes to the target is
\* stored with the empty string, whatever the key and the form of its value.
C13_KeysOnlyStoresEmptyStrings ==
  (CopySucceeded /\ op.options.OnlyCopyKeys) =>
    \A k \in KeysOfCell(CopyTargetNow) :
      \/ CopyTargetNow.d[k] = EmptyString
      \/ HoldsPair(CopyTarget0, k, CopyTargetNow.d[k])

(***************************************************************************)
(* cross-store operations and bare flat-store secrets                      *)
(***************************************************************************)
\* the invocation passed the dry-run and confirmation gate
PassedGate == ~op.dryRun /\ (op.autoApprove \/ promptForConfirmation(op.answer))

\* the flat-store document a cross-store copy names, as it was before the copy
CopyFlat0 ==
  IF StoreOf(op.sourceEnv) = "vault" THEN CopyTarget0 ELSE CopySource0

\* the flat-store document a cross-store comparison names
CompareFlat0 ==
  IF StoreOf(op.sourceEnv) = "vault" THEN Cell0(CompareTargetLoc(op))
  ELSE Cell0(CompareSourceLoc(op))

\* a cross-store copy wrote nothing
CopyWroteNothing ==
  /\ StoresUntouched
  /\ hist.docWrites = 0 /\ hist.mountWrites = 0

\* the errors that say a flat-store secret is not a JSON object
IncompatibleFormat == {"non-json-source", "non-json-target"}

CompareSource0 == Cell0(CompareSourceLoc(op))
CompareTarget0 == Cell0(CompareTargetLoc(op))

\* the comparison returned a result and found both documents
ComparedBoth == Compared /\ op.missingInSource = {} /\ op.missingInTarget = {}

\* the entries of the result with one status, the messages left out
EntriesWith(status) ==
  {e \in op.diffs : e.Status = status /\ Info \notin {e.Current, e.Target}}

\* C15: for a key held by both documents a comparison emits a Modified entry
\* exactly when the unredacted string forms of the two values differ, whatever
\* the redaction settings are.
C15_ModifiedIffRawValuesDiffer ==
  ComparedBoth =>
    \A k \in KeysOfCell(CompareSource0) \cap KeysOfCell(CompareTarget0) :
      (\E e \in EntriesWith("*") : e.Key = k)
        <=> Sprint(CompareSource0.d[k]) # Sprint(CompareTarget0.d[k])

\* the comparison was asked of stores its function takes
ComparePathApplies ==
  LET tEnv == IF op.targetEnv = "" THEN op.sourceEnv ELSE op.targetEnv
  IN /\ op.kind = "compare"
     /\ op.fn = "cross-store" => StoreOf(op.sourceEnv) # StoreOf(tEnv)
     /\ op.fn = "aws-instances" => StoreOf(tEnv) = "awssecretsmanager"

\* exactly one of the two documents is absent, the other one holds keys, and
\* every fetch answered
OnlySourcePresent ==
  /\ ComparePathApplies /\ op.pc = "exit" /\ hist.faults = 0
  /\ CompareSource0.st = "doc" /\ CompareTarget0.st = "none"
OnlyTargetPresent ==
  /\ ComparePathApplies /\ op.pc = "exit" /\ hist.faults = 0
  /\ CompareSource0.st = "none" /\ CompareTarget0.st = "doc"

\* the result is one INFO entry and one entry of the given status per key
OneEntryPerKey(keys, status) ==
  /\ op.code = 0
  /\ Cardinality({e \in op.diffs : e.Key = kInfo /\ Info \in {e.Current, e.Target}}) = 1
  /\ {e.Key : e \in EntriesWith(status)} = keys
  /\ Cardinality(op.diffs) = 1 + Cardinality(keys)

\* C16: when exactly one of the two documents is absent the comparison
\* succeeds with one INFO entry and exactly one entry per key of the present
\* document, all Added when the source is the present one and all Removed when
\* the target is, in every compare path.
C16_AbsenceIsSymmetric ==
  /\ OnlySourcePresent => OneEntryPerKey(KeysOfCell(CompareSource0), "+")
  /\ OnlyTargetPresent => OneEntryPerKey(KeysOfCell(CompareTarget0), "-")

\* a comparison of two documents that are identical, every fetch having answered
ComparedIdentical ==
  /\ ComparePathApplies /\ op.pc = "exit" /\ hist.faults = 0
  /\ CompareSource0.st # "none" /\ CompareSource0 = CompareTarget0

RedactAllOrMatches(c, key) ==
  ShouldRedactSecrets(c) \/ MatchesAny(key, GetRedactedKeys(c))

\* C18: the sensitivity test of the Vault client, that of the flat-store client
\* and that of the cross-store comparison each return true exactly when
\* redactAllSecrets is true or the lowercased key contains a configured
\* pattern, so the three agree on every key under every policy.
C18_SensitivityTestsAgree ==
  (op.kind = "compare" /\ op.pc = "exit") =>
    \A k \in Keys \cup {nUser, nPass} :
      /\ VaultIsRedactedKey(cfg, k) <=> RedactAllOrMatches(cfg, k)
      /\ AwsIsRedactedKey(cfg, k) <=> RedactAllOrMatches(cfg, k)
      /\ shouldRedact(cfg, k) <=> RedactAllOrMatches(cfg, k)

(***************************************************************************)
(* copy and split: the gate and the log                                    *)
(***************************************************************************)
\* the invocation is held back: --dry-run is set, or --approve is not set and
\* the answer to the prompt is not y or yes
HeldBack == op.kind \in {"copy", "split"} /\ ~PassedGate

\* C19: a copy or split invocation performs no backend write, neither a
\* document write nor an engine creation, when --dry-run is set, and none when
\* --approve is not set and the answer to the confirmation prompt is anything
\* other than y or yes.
C19_HeldBackWritesNothing ==
  HeldBack => /\ StoresUntouched
              /\ hist.docWrites = 0 /\ hist.mountWrites = 0
              /\ ~hist.targetWritten /\ ~hist.sourceWritten

\* a copy between two Vault locations was declined at the prompt and has ended,
\* the engine of its target not being mounted
C19_Witness ==
  /\ HeldBack /\ op.kind = "copy" /\ op.pc = "exit" /\ op.msg = "cancelled"
  /\ ~op.dryRun
  /\ StoreOf(op.sourceEnv) = "vault" /\ StoreOf(op.targetEnv) = "vault"
  /\ op.targetKV # "" /\ op.targetKV \notin mounts[op.targetEnv]

\* a command has ended after a write to a backend: a document write or an
\* engine creation
EndedAfterWrite ==
  /\ op.kind \in {"copy", "split"} /\ op.pc = "exit"
  /\ op.kind = "copy" => op.entry = "command"
  /\ hist.docWrites > 0 \/ hist.mountWrites > 0

\* C20: every copy or split invocation that writes to a backend appends exactly
\* one log record, and the record carries the success flag of the invocation,
\* whether it ends in success or in failure and whether it stays within one
\* store or crosses from one to the other.
C20_EveryWritingRunLogged ==
  EndedAfterWrite => /\ Len(hist.log) = 1
                     /\ hist.log[1].success <=> op.code = 0

(***************************************************************************)
(* configuration lookup                                                    *)
(***************************************************************************)
SupportedStores == {"vault", "awssecretsmanager"}

\* the environment asked for is one the lookup has to refuse
MustBeRefused ==
  \/ op.env \notin DOMAIN op.environments
  \/ op.environments[op.env].URL = ""
  \/ op.environments[op.env].TokenEnv = ""
  \/ op.environments[op.env].Store \notin SupportedStores

\* C21: GetEnvironmentConfig returns an error when the environment is not
\* defined, when its URL is empty, when its token_env is empty or when its
\* store is neither vault nor awssecretsmanager; in every other case it returns
\* the environment's URL, token_env and store unchanged.
C21_EnvironmentLookup ==
  (op.kind = "config" /\ op.pc = "exit") =>
    /\ op.code # 0 <=> MustBeRefused
    /\ op.code = 0 => op.config = op.environments[op.env]

(***************************************************************************)
(* fetches that fail                                                       *)
(***************************************************************************)
\* a fetch of the invocation failed although the backend did not report the
\* document as absent: the transport failed, or the engine listing did
FetchBroke == hist.fetchFaults > 0

\* C22: a fetch that fails for a reason other than the document being absent
\* is never taken by Compare, Copy or Split as "document absent": the operation
\* fails, whatever text the error message holds.
C22_BrokenFetchFailsOperation ==
  (op.kind \in {"compare", "copy", "split"} /\ op.pc = "exit" /\ FetchBroke)
    => op.code # 0

(***************************************************************************)
(* copy: the one write                                                     *)
(***************************************************************************)
\* C23: a Copy issues at most one document write to the target and does not
\* retry it; when that write or an earlier step fails, the target document is
\* identical to what it was before the call.
C23_CopyWritesOnceOrNothing ==
  op.kind = "copy" =>
    /\ hist.docWrites <= 1
    /\ (op.pc = "exit" /\ op.code # 0) => CopyTargetNow = CopyTarget0

\* the write of a copy onto an existing target failed, the source holding a
\* key the target lacks
C23_Witness ==
  /\ op.kind = "copy" /\ op.pc = "exit" /\ op.msg = "write-failed"
  /\ CopyTarget0.st = "doc" /\ CopySource0.st = "doc"
  /\ KeysOfCell(CopySource0) \ KeysOfCell(CopyTarget0) # {}
  /\ op.options.CopySecrets /\ op.options.CopyConfig

(***************************************************************************)
(* split: the partial failure                                              *)
(***************************************************************************)
\* the split ended after the target was written and the source was not
SplitEndedHalfway ==
  /\ op.kind = "split" /\ op.pc = "exit"
  /\ hist.targetWritten /\ ~hist.sourceWritten

\* the exit status of the split failures that wrote no document
CleanFailureStatus == {1}

\* C24: when the source update of a Split fails after the target write
\* succeeded, the outcome handed to the caller differs in its status, not in its
\* message alone, from the outcome of every failure that wrote nothing, and it
\* tells that the target holds the sensitive keys while the source was not
\* updated.
C24_PartialFailureDistinct ==
  /\ (op.kind = "split" /\ op.pc = "exit" /\ op.code # 0 /\ hist.docWrites = 0)
       => op.code \in CleanFailureStatus
  /\ SplitEndedHalfway => /\ op.code # 0
                          /\ op.code \notin CleanFailureStatus
                          /\ op.msg = "source-update-failed"

(***************************************************************************)
(* compare: the keys inside a JSON-valued string                           *)
(***************************************************************************)
\* the texts that stand for a redacted nested value
Placeholders == {"****", "(redacted)"}

\* the values shown by the entries of the result that are JSON objects
ShownObjects ==
  {v \in {e.Current : e \in op.diffs} \cup {e.Target : e \in op.diffs} : v.t = "json"}

\* C25: inside a JSON-valued string the value under a nested key is replaced
\* by the placeholder exactly when redactNestedJSON is true and the nested key
\* matches a configured sensitive pattern; redactAllSecrets plays no part, in
\* the Vault client, the flat-store client and the cross-store comparison.
C25_NestedRedactionByPatternOnly ==
  Compared =>
    \A v \in ShownObjects : \A n \in DOMAIN v.o :
      v.o[n] \in Placeholders
        <=> (ShouldRedactJSONValues(cfg) /\ MatchesAny(n, GetRedactedKeys(cfg)))

(***************************************************************************)
(* C26: what the compare commands print for flagged entries                *)
(***************************************************************************)
\* the values the command wrote for one entry of the result
PrintedFor(e) == {l.text : l \in {x \in op.printed : x.entry = e}}

\* C26: for every entry of a printed comparison whose IsRedacted flag is set,
\* the lines printed for it hold neither its source value nor its target value,
\* whatever its key is (document keys named INFO or ERROR included)
C26_FlaggedValuesNeverPrinted ==
  Compared =>
    \A e \in op.diffs :
      e.IsRedacted =>
        /\ e.Current # EmptyString => e.Current \notin PrintedFor(e)
        /\ e.Target # EmptyString => e.Target \notin PrintedFor(e)

(***************************************************************************)
(* C27: a copy whose source document is absent                             *)
(***************************************************************************)
\* a copy that went past its gate has ended, and the location its command line
\* names as the source held no document
CopiedFromAbsent ==
  /\ op.kind = "copy" /\ op.pc = "exit" /\ PassedGate
  /\ CopySource0.st = "none"

\* C27: when the source document is absent, Copy fails and leaves the target
\* backend unchanged: no document is written and no engine is created
C27_AbsentSourceLeavesTargetAlone ==
  CopiedFromAbsent =>
    /\ op.code # 0
    /\ StoresUntouched
    /\ hist.docWrites = 0 /\ hist.mountWrites = 0

(***************************************************************************)
(* C28: split and a second invocation that creates the target              *)
(***************************************************************************)
\* C28: a document that another invocation created at the target after Split's
\* existence check is never replaced by Split: it is still there, as written,
\* in every later state
C28_SplitNeverReplacesTarget ==
  (op.kind = "split" /\ hist.rivalWrote # Absent) =>
    CellNow(SplitUsedTargetLoc(op)) = hist.rivalWrote

(***************************************************************************)
(* C29: two copies into one target                                         *)
(***************************************************************************)
\* both copies have ended
RaceOver == op.kind = "copyrace" /\ \A i \in DOMAIN op.inv : op.inv[i].pc = "exit"

\* the target document of the two copies, before and now
RaceTarget0 == Cell0(IF StoreOf(op.env) = "vault" THEN <<op.env, op.kvEngine, op.targetPath>>
                     ELSE <<op.env, op.targetPath>>)
RaceTargetNow == CellNow(IF StoreOf(op.env) = "vault" THEN <<op.env, op.kvEngine, op.targetPath>>
                         ELSE <<op.env, op.targetPath>>)

\* C29: when two copies with Overwrite unset have run against one target from
\* different sources, in whatever order their fetches and writes fell, the target
\* holds every key it held before and every key of the document either copy wrote
C29_NoKeyLostBetweenCopies ==
  RaceOver =>
    /\ KeysOfCell(RaceTarget0) \subseteq KeysOfCell(RaceTargetNow)
    /\ \A i \in DOMAIN op.inv :
         op.inv[i].code = 0 => DOMAIN op.inv[i].resultData \subseteq KeysOfCell(RaceTargetNow)

(***************************************************************************)
(* C30: the same copy twice                                                *)
(***************************************************************************)
\* the second of two runs of one copy command has ended
SecondRunEnded == op.kind = "copy" /\ op.pc = "exit" /\ hist.firstRun.ended

\* C30: Copy is idempotent: after the same Copy has run twice in succession, no
\* backend call of either run having failed, the backends are in the state the
\* first run left them in, for every source, target and option set
C30_CopyIdempotent ==
  (SecondRunEnded /\ hist.faults = 0) =>
    /\ vault = hist.firstRun.vault
    /\ aws = hist.firstRun.aws
    /\ mounts = hist.firstRun.mounts

\* both runs copied, and the first one changed the target document
C30_Witness ==
  /\ SecondRunEnded /\ hist.faults = 0
  /\ hist.firstRun.code = 0 /\ op.msg = "copied" /\ hist.docWrites = 2
  /\ CopyTarget0.st = "doc"
  /\ CopyTargetNow # CopyTarget0
  /\ ~op.options.Overwrite
====
